---- MODULE Spec2Model ----
(***************************************************************************)
(* Model of the FTC Dashboard configurable grid layout                     *)
(* (components/ConfigurableLayout.tsx): the undo/redo history reducer and  *)
(* the component that drives it, and of the scrolling time-series graph    *)
(* renderer (components/views/GraphView/Graph.js).                         *)
(*                                                                         *)
(* JavaScript objects have identity: a snapshot is an array of references  *)
(* to grid item objects, and two snapshots may share item objects.  The    *)
(* model therefore keeps a heap (address -> item object) and represents a  *)
(* snapshot as a sequence of addresses.  lodash isEqual compares by        *)
(* content, JSON.stringify writes content, JSON.parse allocates fresh      *)
(* objects.                                                                *)
(***************************************************************************)
EXTENDS Integers, Sequences, FiniteSets, TLC

VARIABLES
  heap,                    \* address -> grid item object (GridItemType)
  gridStateHistory,        \* reducer state: sequence of snapshots
  actionHistory,           \* reducer state: log of effective commands
  currentHistoryPosition,  \* reducer state: 0-based cursor, -1 when empty
  currentHead,             \* reducer state: the snapshot shown
  isLayoutLocked,          \* useState(true)
  isInDeleteMode,          \* useState(false)
  isShowingViewPicker,     \* useState(false)
  storage,                 \* window.localStorage[LOCAL_STORAGE_LAYOUT_KEY]
  mounted,                 \* whether the mount effect has run
  dispatched,              \* effective APPENDs over all page loads
  lastOp,                  \* name of the handler that ran last
  lastAction,              \* the action that handler dispatched, if any
  pre,                     \* reducer state before that dispatch
  rt,                      \* bookkeeping of the round-trip scenario
  data,                    \* Graph: this.data, the series in Object.keys order
  beginGraphNowMs,         \* Graph: anchor in telemetry time (NaN until set)
  beginRenderTimeMs,       \* Graph: anchor in browser time (NaN until set)
  now,                     \* Date.now()
  adds,                    \* number of add calls made
  addCalls,                \* the add calls since reset: argument and clock
  lastRender,              \* what the last render call returned and plotted
  scaling                  \* input and result of the last getAxisScaling call

vars == <<heap, gridStateHistory, actionHistory, currentHistoryPosition,
          currentHead, isLayoutLocked, isInDeleteMode, isShowingViewPicker,
          storage, mounted, dispatched, lastOp, lastAction, pre, rt,
          data, beginGraphNowMs, beginRenderTimeMs, now, adds, addCalls,
          lastRender, scaling>>

histVars == <<gridStateHistory, actionHistory, currentHistoryPosition, currentHead>>

graphVars == <<data, beginGraphNowMs, beginRenderTimeMs, now, adds, addCalls,
               lastRender, scaling>>

(***************************************************************************)
(* Bounds of the model                                                     *)
(***************************************************************************)
MaxActions == 3      \* effective APPENDs of the component, over all page loads
MaxLog == 4          \* longest action log of a page load
MaxDispatches == 5   \* longest action log when the reducer is driven alone
MaxObjs == 20        \* heap addresses available
MaxN == 4            \* largest N of the N-undo / N-redo scenario

Addr == 1..MaxObjs

(***************************************************************************)
(* Program constants                                                       *)
(***************************************************************************)
HEIGHT_MEDIUM == 730
HEIGHT_TALL == 1200
COLS == 6
GRID_COL == 6
ITEM_WIDTH == 2
ITEM_HEIGHT == 4

Min(a, b) == IF a < b THEN a ELSE b
Max(a, b) == IF a > b THEN a ELSE b

(***************************************************************************)
(* Objects and snapshots                                                   *)
(***************************************************************************)
MkLayout(x, y, w, h, d, r) ==
  [x |-> x, y |-> y, w |-> w, h |-> h, isDraggable |-> d, isResizable |-> r]

MkItem(id, view, layout) == [id |-> id, view |-> view, layout |-> layout]

\* The content of snapshot arr (a sequence of addresses) in heap h.
Deref(arr, h) == [i \in 1..Len(arr) |-> h[arr[i]]]

\* lodash isEqual on two arrays of grid items: deep equality of content.
IsEqual(a, b, h) == Deref(a, h) = Deref(b, h)

\* JavaScript array indexing arr[i] (0-based); out of range is undefined,
\* which isEqual distinguishes from every array.
HasIndex(arr, i) == i + 1 \in 1..Len(arr)

\* gridStateHistory[pos] used as the new head; undefined is rendered as the
\* empty array, a case no run of the reducer reaches.
SnapshotAt(history, pos) == IF HasIndex(history, pos) THEN history[pos + 1] ELSE <<>>

MkState(history, log, pos, head) ==
  [gridStateHistory |-> history, actionHistory |-> log,
   currentHistoryPosition |-> pos, currentHead |-> head]

CurState == MkState(gridStateHistory, actionHistory, currentHistoryPosition, currentHead)

EmptyState == MkState(<<>>, <<>>, -1, <<>>)

NoAction == [type |-> "NONE", payload |-> <<>>]
AppendAction(p) == [type |-> "APPEND", payload |-> p]
UndoAction == [type |-> "UNDO", payload |-> <<>>]
RedoAction == [type |-> "REDO", payload |-> <<>>]

(***************************************************************************)
(* stateHistoryReducer                                                     *)
(***************************************************************************)
LastLogged(state) ==
  IF Len(state.actionHistory) = 0 THEN "NONE"
  ELSE state.actionHistory[Len(state.actionHistory)]

\* Variant comparing by reference (===) where the code compares with isEqual.
ShouldAppend_ByReference(state, payload, h) ==
  IF Len(state.gridStateHistory) = 0 THEN TRUE
  ELSE /\ ~(/\ HasIndex(state.gridStateHistory, state.currentHistoryPosition)
            /\ state.gridStateHistory[state.currentHistoryPosition + 1] = payload)
       /\ ~(/\ LastLogged(state) \in {"UNDO", "REDO"}
            /\ state.currentHead = payload)

\* Variant that suppresses nothing once the log ends in UNDO or REDO.
ShouldAppend_NotAfterMove(state, payload, h) ==
  IF Len(state.gridStateHistory) = 0 THEN TRUE
  ELSE \/ LastLogged(state) \in {"UNDO", "REDO"}
       \/ ~(/\ HasIndex(state.gridStateHistory, state.currentHistoryPosition)
             /\ IsEqual(state.gridStateHistory[state.currentHistoryPosition + 1], payload, h))

ShouldAppend(state, payload, h) ==
  IF Len(state.gridStateHistory) = 0 THEN TRUE
  ELSE /\ ~(/\ HasIndex(state.gridStateHistory, state.currentHistoryPosition)
            /\ IsEqual(state.gridStateHistory[state.currentHistoryPosition + 1], payload, h))
       /\ ~(/\ LastLogged(state) \in {"UNDO", "REDO"}
            /\ IsEqual(state.currentHead, payload, h))

\* newGridStateHistory after the optional splice and the push.
Spliced(state) ==
  IF state.currentHistoryPosition # Len(state.gridStateHistory) - 1
  THEN SubSeq(state.gridStateHistory, 1,
              Min(Max(state.currentHistoryPosition + 1, 0), Len(state.gridStateHistory)))
  ELSE state.gridStateHistory

\* Variant that pushes without discarding the redo branch.
PushPayload_NoSplice(state, payload) ==
  LET newHistory == Append(state.gridStateHistory, payload)
      newPos == state.currentHistoryPosition + 1
  IN MkState(newHistory, Append(state.actionHistory, "APPEND"), newPos,
             SnapshotAt(newHistory, newPos))

PushPayload(state, payload) ==
  LET newHistory == Append(Spliced(state), payload)
      newPos == state.currentHistoryPosition + 1
  IN MkState(newHistory, Append(state.actionHistory, "APPEND"), newPos,
             SnapshotAt(newHistory, newPos))

ReduceAppend(state, payload, h) ==
  IF ShouldAppend(state, payload, h) THEN PushPayload(state, payload) ELSE state

\* Variant that logs UNDO even when there is nothing to undo.
ReduceUndo_AlwaysLogs(state) ==
  IF state.currentHistoryPosition > 0
  THEN LET newPos == state.currentHistoryPosition - 1
       IN MkState(state.gridStateHistory, Append(state.actionHistory, "UNDO"), newPos,
                  SnapshotAt(state.gridStateHistory, newPos))
  ELSE [state EXCEPT !.actionHistory = Append(state.actionHistory, "UNDO")]

\* Variant without the cursor test.
ReduceUndo_NoGuard(state) ==
  LET newPos == state.currentHistoryPosition - 1
  IN MkState(state.gridStateHistory, Append(state.actionHistory, "UNDO"), newPos,
             SnapshotAt(state.gridStateHistory, newPos))

\* Variant that moves the cursor and keeps the head.
ReduceUndo_KeepsHead(state) ==
  IF state.currentHistoryPosition > 0
  THEN MkState(state.gridStateHistory, Append(state.actionHistory, "UNDO"),
               state.currentHistoryPosition - 1, state.currentHead)
  ELSE state

ReduceUndo(state) ==
  IF state.currentHistoryPosition > 0
  THEN LET newPos == state.currentHistoryPosition - 1
       IN MkState(state.gridStateHistory, Append(state.actionHistory, "UNDO"), newPos,
                  SnapshotAt(state.gridStateHistory, newPos))
  ELSE state

\* Variant whose bound test is off by one.
ReduceRedo_OffByOne(state) ==
  IF state.currentHistoryPosition < Len(state.gridStateHistory)
  THEN LET newPos == state.currentHistoryPosition + 1
       IN MkState(state.gridStateHistory, Append(state.actionHistory, "REDO"), newPos,
                  SnapshotAt(state.gridStateHistory, newPos))
  ELSE state

\* Variant that moves the cursor and keeps the head.
ReduceRedo_KeepsHead(state) ==
  IF state.currentHistoryPosition < Len(state.gridStateHistory) - 1
  THEN MkState(state.gridStateHistory, Append(state.actionHistory, "REDO"),
               state.currentHistoryPosition + 1, state.currentHead)
  ELSE state

ReduceRedo(state) ==
  IF state.currentHistoryPosition < Len(state.gridStateHistory) - 1
  THEN LET newPos == state.currentHistoryPosition + 1
       IN MkState(state.gridStateHistory, Append(state.actionHistory, "REDO"), newPos,
                  SnapshotAt(state.gridStateHistory, newPos))
  ELSE state

stateHistoryReducer(state, action, h) ==
  IF action.type = "APPEND" THEN ReduceAppend(state, action.payload, h)
  ELSE IF action.type = "UNDO" THEN ReduceUndo(state)
  ELSE IF action.type = "REDO" THEN ReduceRedo(state)
  ELSE state

\* dispatch(action): the reducer's result becomes the new reducer state.
Dispatch(action, h) ==
  LET s == stateHistoryReducer(CurState, action, h)
  IN /\ gridStateHistory' = s.gridStateHistory
     /\ actionHistory' = s.actionHistory
     /\ currentHistoryPosition' = s.currentHistoryPosition
     /\ currentHead' = s.currentHead
     /\ lastAction' = action
     /\ pre' = CurState

(***************************************************************************)
(* Graph.js: JavaScript values and the state a new Graph starts in         *)
(***************************************************************************)
\* A JavaScript value as it can occur in a sample entry: a number, NaN,
\* undefined (a missing value), null, a string that Number() converts to the
\* number v ("5"), or any other string ("abc").
Num(n) == [kind |-> "number", v |-> n]
NaN == [kind |-> "NaN", v |-> 0]
Undefined == [kind |-> "undefined", v |-> 0]
Null == [kind |-> "null", v |-> 0]
NumericString(n) == [kind |-> "numeric string", v |-> n]
OtherString == [kind |-> "string", v |-> 0]

\* The global isNaN(x): whether Number(x) is NaN.  Number(null) is 0 and
\* Number("5") is 5.
isNaN(x) == x.kind \in {"NaN", "undefined", "string"}

\* DEFAULT_OPTIONS
windowMs == 5000
colors == <<"#2979ff", "#dd2c00", "#4caf50", "#7c4dff", "#ffa000">>
maxTicks == 7

\* The lag add introduces for transmission time, which is also the slack of
\* the prune loop.
LagMs == 250

\* Number.MAX_VALUE, the largest finite double, and Number.MIN_VALUE, the
\* smallest positive double (5e-324): kept as values of their own next to
\* the whole numbers the samples carry.
MAX_VALUE == [kind |-> "MAX_VALUE", v |-> 0]
MIN_VALUE == [kind |-> "MIN_VALUE", v |-> 0]

\* The Y axis of a frame in which renderGraph was not reached.
NoYAxis == [called |-> FALSE, min |-> MAX_VALUE, max |-> MIN_VALUE, padded |-> FALSE,
            low |-> MAX_VALUE, high |-> MIN_VALUE]

NoRender == [called |-> FALSE, result |-> FALSE, at |-> 0, graphNowMs |-> NaN,
             width |-> 0, points |-> <<>>, yAxis |-> NoYAxis]

\* Numbers that need not be whole are kept as exact fractions num / den with
\* a positive denominator.
Whole(n) == [num |-> n, den |-> 1]

FracLeq(p, q) ==
  IF p.den = q.den THEN p.num <= q.num ELSE p.num * q.den <= q.num * p.den

FracLess(p, q) ==
  IF p.den = q.den THEN p.num < q.num ELSE p.num * q.den < q.num * p.den

FracEq(p, q) == p.num * q.den = q.num * p.den

NoScaling == [called |-> FALSE, min |-> Whole(0), max |-> Whole(1),
              niceMin |-> Whole(0), niceMax |-> Whole(1), spacing |-> Whole(1)]

\* reset(), as called by the constructor.
GraphConstructed ==
  /\ data = <<>>
  /\ beginGraphNowMs = NaN
  /\ beginRenderTimeMs = NaN

\* The graph-side variables before any call: the wall clock reads 1000.
InitGraph ==
  /\ GraphConstructed
  /\ now = 1000
  /\ adds = 0
  /\ addCalls = <<>>
  /\ lastRender = NoRender
  /\ scaling = NoScaling

(***************************************************************************)
(* The reducer on its own: any sequence of APPEND, UNDO and REDO           *)
(***************************************************************************)
FIELD_VIEW == "FIELD_VIEW"
GRAPH_VIEW == "GRAPH_VIEW"
CONFIG_VIEW == "CONFIG_VIEW"
TELEMETRY_VIEW == "TELEMETRY_VIEW"
CAMERA_VIEW == "CAMERA_VIEW"
OPMODE_VIEW == "OPMODE_VIEW"

ConfigurableView ==
  {FIELD_VIEW, GRAPH_VIEW, CONFIG_VIEW, TELEMETRY_VIEW, CAMERA_VIEW, OPMODE_VIEW}

NullBlob == [present |-> FALSE, items |-> <<>>]

RtIdle == [phase |-> "off", n |-> 0, left |-> 0, head |-> <<>>, pos |-> -1]

\* Four item objects to build payloads from: 1 and 3 are distinct objects
\* with equal content, 2 is the panel of 1 moved, 4 is another panel.
ReducerHeap ==
  (1 :> MkItem(1, FIELD_VIEW, MkLayout(0, 0, 2, 4, TRUE, TRUE))) @@
  (2 :> MkItem(1, FIELD_VIEW, MkLayout(2, 0, 2, 4, TRUE, TRUE))) @@
  (3 :> MkItem(1, FIELD_VIEW, MkLayout(0, 0, 2, 4, TRUE, TRUE))) @@
  (4 :> MkItem(2, GRAPH_VIEW, MkLayout(4, 0, 2, 4, TRUE, TRUE)))

Payloads == {<<>>, <<1>>, <<2>>, <<3>>, <<1, 4>>, <<3, 4>>}

InitWith(blob) ==
  /\ gridStateHistory = <<>>
  /\ actionHistory = <<>>
  /\ currentHistoryPosition = -1
  /\ currentHead = <<>>
  /\ isLayoutLocked = TRUE
  /\ isInDeleteMode = FALSE
  /\ isShowingViewPicker = FALSE
  /\ storage = blob
  /\ mounted = FALSE
  /\ dispatched = 0
  /\ lastOp = "none"
  /\ lastAction = NoAction
  /\ pre = EmptyState
  /\ InitGraph

\* The first visit: nothing is stored under the layout key.
InitCommon == InitWith(NullBlob)

InitReducer ==
  /\ InitCommon
  /\ heap = ReducerHeap
  /\ rt = RtIdle

componentVars == <<heap, isLayoutLocked, isInDeleteMode, isShowingViewPicker,
                   storage, mounted, dispatched>>

RAppend ==
  \E p \in Payloads :
    /\ Len(actionHistory) < MaxDispatches
    /\ Dispatch(AppendAction(p), heap)
    /\ lastOp' = "dispatch"
    /\ UNCHANGED graphVars
    /\ UNCHANGED <<componentVars, rt>>

RUndo ==
  /\ Len(actionHistory) < MaxDispatches
  /\ Dispatch(UndoAction, heap)
  /\ lastOp' = "dispatch"
  /\ UNCHANGED graphVars
  /\ UNCHANGED <<componentVars, rt>>

RRedo ==
  /\ Len(actionHistory) < MaxDispatches
  /\ Dispatch(RedoAction, heap)
  /\ lastOp' = "dispatch"
  /\ UNCHANGED graphVars
  /\ UNCHANGED <<componentVars, rt>>

NextReducer == RAppend \/ RUndo \/ RRedo

SpecReducer == InitReducer /\ [][NextReducer]_vars

(***************************************************************************)
(* Round-trip scenario: APPENDs, then N UNDOs, then N REDOs                *)
(***************************************************************************)
InitRoundTrip ==
  /\ InitCommon
  /\ heap = ReducerHeap
  /\ rt = [phase |-> "append", n |-> 0, left |-> 0, head |-> <<>>, pos |-> -1]

RTAppend ==
  \E p \in Payloads :
    /\ rt.phase = "append"
    /\ Len(actionHistory) < MaxDispatches
    /\ Dispatch(AppendAction(p), heap)
    /\ lastOp' = "dispatch"
    /\ UNCHANGED graphVars
    /\ UNCHANGED <<componentVars, rt>>

RTStart ==
  \E n \in 0..MaxN :
    /\ rt.phase = "append"
    /\ rt' = [phase |-> IF n = 0 THEN "done" ELSE "undo", n |-> n, left |-> n,
              head |-> currentHead, pos |-> currentHistoryPosition]
    /\ lastOp' = "start"
    /\ UNCHANGED graphVars
    /\ UNCHANGED <<componentVars, histVars, lastAction, pre>>

RTUndo ==
  /\ rt.phase = "undo"
  /\ Dispatch(UndoAction, heap)
  /\ rt' = IF rt.left = 1 THEN [rt EXCEPT !.phase = "redo", !.left = rt.n]
           ELSE [rt EXCEPT !.left = rt.left - 1]
  /\ lastOp' = "dispatch"
  /\ UNCHANGED graphVars
  /\ UNCHANGED componentVars

RTRedo ==
  /\ rt.phase = "redo"
  /\ Dispatch(RedoAction, heap)
  /\ rt' = IF rt.left = 1 THEN [rt EXCEPT !.phase = "done", !.left = 0]
           ELSE [rt EXCEPT !.left = rt.left - 1]
  /\ lastOp' = "dispatch"
  /\ UNCHANGED graphVars
  /\ UNCHANGED componentVars

NextRoundTrip == RTAppend \/ RTStart \/ RTUndo \/ RTRedo

SpecRoundTrip == InitRoundTrip /\ [][NextRoundTrip]_vars

(***************************************************************************)
(* The component ConfigurableLayout                                        *)
(***************************************************************************)
Range(f) == {f[i] : i \in DOMAIN f}

\* The n lowest addresses not in use, as a sequence (object allocation).
RECURSIVE AllocSeq(_, _)
AllocSeq(used, n) ==
  IF n = 0 THEN <<>>
  ELSE LET a == CHOOSE x \in Addr \ used : \A y \in Addr \ used : x <= y
       IN <<a>> \o AllocSeq(used \cup {a}, n - 1)

CanAlloc(h, n) == Cardinality(Addr \ DOMAIN h) >= n

\* Heap h extended with fresh objects of the given contents at addrs.
Store(h, addrs, items) ==
  [a \in DOMAIN h \cup Range(addrs) |->
     IF a \in DOMAIN h THEN h[a]
     ELSE items[CHOOSE i \in 1..Len(addrs) : addrs[i] = a]]

\* Objects no snapshot refers to any more are unobservable and dropped.
Collect(h, state) ==
  LET live == UNION ({Range(state.gridStateHistory[i]) :
                        i \in 1..Len(state.gridStateHistory)}
                     \cup {Range(state.currentHead)})
  IN [a \in DOMAIN h \cap live |-> h[a]]

\* JSON.stringify([...currentHead]): the content of every panel, in order.
Serialize(arr, h) == [present |-> TRUE, items |-> Deref(arr, h)]

\* uuidv4(): identifiers not used by any object or stored panel.
UsedIds(h) ==
  {h[a].id : a \in DOMAIN h} \cup {storage.items[i].id : i \in 1..Len(storage.items)}

FreshId(h, k) ==
  LET top == IF UsedIds(h) = {} THEN 0
             ELSE CHOOSE m \in UsedIds(h) : \A n \in UsedIds(h) : n <= m
  IN top + k

DefaultItem(k, view, x, y, w, h) == MkItem(k, view, MkLayout(x, y, w, h, TRUE, TRUE))

DEFAULT_GRID ==
  << DefaultItem(1, FIELD_VIEW, 0, 0, 2, 9),
     DefaultItem(2, GRAPH_VIEW, 2, 0, 2, 9),
     DefaultItem(3, CONFIG_VIEW, 4, 0, 2, 7),
     DefaultItem(4, TELEMETRY_VIEW, 4, 7, 2, 2) >>

DEFAULT_GRID_MEDIUM ==
  << DefaultItem(1, FIELD_VIEW, 0, 0, 2, 13),
     DefaultItem(2, GRAPH_VIEW, 2, 0, 2, 13),
     DefaultItem(3, CONFIG_VIEW, 4, 0, 2, 11),
     DefaultItem(4, TELEMETRY_VIEW, 4, 11, 2, 2) >>

DEFAULT_GRID_TALL ==
  << DefaultItem(1, FIELD_VIEW, 0, 0, 2, 18),
     DefaultItem(2, GRAPH_VIEW, 2, 0, 2, 18),
     DefaultItem(3, CONFIG_VIEW, 4, 0, 2, 14),
     DefaultItem(4, TELEMETRY_VIEW, 4, 11, 2, 4) >>

\* containerRef.current?.clientHeight; 0 stands for the falsy readings
\* (undefined and 0).
Heights == {0, HEIGHT_MEDIUM, HEIGHT_MEDIUM + 1, HEIGHT_TALL, HEIGHT_TALL + 1}

DefaultFor(height) ==
  IF height # 0
  THEN IF height > HEIGHT_TALL THEN DEFAULT_GRID_TALL
       ELSE IF height > HEIGHT_MEDIUM THEN DEFAULT_GRID_MEDIUM
       ELSE DEFAULT_GRID
  ELSE DEFAULT_GRID

\* The array currentHead refers to is replaced exactly when the cursor moves:
\* an effective APPEND makes the payload (a new array) the head, UNDO and REDO
\* select another element of the history, a suppressed action keeps the array.
HeadReplaced(old, new) == new.currentHistoryPosition # old.currentHistoryPosition

\* useEffect(..., [currentHead]): writes the head's panels when the head array
\* was replaced.
PersistEffect(old, new, h) ==
  IF HeadReplaced(old, new) THEN Serialize(new.currentHead, h) ELSE storage

\* A handler that dispatches `action` with the heap left as h by the handler;
\* the render that follows runs the persistence effect.
Handle(action, h) ==
  LET s == stateHistoryReducer(CurState, action, h)
  IN /\ action.type = "APPEND" => dispatched < MaxActions
     /\ Dispatch(action, h)
     /\ dispatched' = IF action.type = "APPEND" /\ s.actionHistory # actionHistory
                      THEN dispatched + 1 ELSE dispatched
     /\ storage' = PersistEffect(CurState, s, h)
     /\ heap' = Collect(h, s)

NoDispatch == lastAction' = NoAction /\ pre' = EmptyState /\ UNCHANGED histVars

\* Mount effect: read the stored layout or pick a default, derive the lock
\* from the panels' flags, append the panels as the first snapshot.  The
\* persistence effect of the first render writes the initial empty head
\* after the read; the render that follows the dispatch overwrites it.
Mount ==
  \E height \in Heights :
    LET newGridItems == IF storage.present THEN storage.items ELSE DefaultFor(height)
        addrs == AllocSeq(DOMAIN heap, Len(newGridItems))
        h1 == Store(heap, addrs, newGridItems)
    IN /\ ~mounted
       /\ CanAlloc(heap, Len(newGridItems))
       /\ isLayoutLocked' =
            ~(\A i \in 1..Len(newGridItems) : newGridItems[i].layout.isResizable)
       /\ Handle(AppendAction(addrs), h1)
       /\ mounted' = TRUE
       /\ lastOp' = "mount"
       /\ UNCHANGED graphVars
       /\ UNCHANGED <<isInDeleteMode, isShowingViewPicker, rt>>

\* Children of the radial menu receive isOpen = !isLayoutLocked and can be
\* clicked while the menu is open.
FabChildrenOpen == mounted /\ ~isLayoutLocked

\* The view picker is shown, and its entries can be clicked, while
\* isShowingViewPicker holds.
ViewPickerOpen == mounted /\ isShowingViewPicker

Flagged(item, flag) ==
  [item EXCEPT !.layout.isResizable = flag, !.layout.isDraggable = flag]

\* currentHead.map(i => { i.layout = {...}; return i }): every object of the
\* head is changed in place.
MutateFlags(h, arr, flag) ==
  [a \in DOMAIN h |-> IF a \in Range(arr) THEN Flagged(h[a], flag) ELSE h[a]]

clickFAB ==
  LET toBeLocked == ~isLayoutLocked
      h1 == MutateFlags(heap, currentHead, ~toBeLocked)
  IN /\ mounted
     /\ isLayoutLocked' = toBeLocked
     /\ Handle(AppendAction(currentHead), h1)
     /\ isShowingViewPicker' = IF toBeLocked THEN FALSE ELSE isShowingViewPicker
     /\ lastOp' = "clickFAB"
     /\ UNCHANGED graphVars
     /\ UNCHANGED <<isInDeleteMode, mounted, rt>>

ToggleViewPicker ==
  /\ FabChildrenOpen
  /\ isShowingViewPicker' = ~isShowingViewPicker
  /\ lastOp' = "toggleViewPicker"
  /\ UNCHANGED graphVars
  /\ NoDispatch
  /\ UNCHANGED <<heap, isLayoutLocked, isInDeleteMode, storage, mounted,
                 dispatched, rt>>

ToggleDeleteMode ==
  /\ FabChildrenOpen
  /\ isInDeleteMode' = ~isInDeleteMode
  /\ lastOp' = "toggleDeleteMode"
  /\ UNCHANGED graphVars
  /\ NoDispatch
  /\ UNCHANGED <<heap, isLayoutLocked, isShowingViewPicker, storage, mounted,
                 dispatched, rt>>

ClearLayout ==
  /\ FabChildrenOpen
  /\ Handle(AppendAction(<<>>), heap)
  /\ lastOp' = "clear"
  /\ UNCHANGED graphVars
  /\ UNCHANGED <<isLayoutLocked, isInDeleteMode, isShowingViewPicker, mounted, rt>>

SetMax(S) == CHOOSE m \in S : \A n \in S : n <= m

\* The layout addItem gives the new panel.
NewItemLayout_NoLengthTest(items, locked) ==
  LET gridMaxY == IF Len(items) = 0 THEN 0
                  ELSE SetMax({items[i].layout.y + items[i].layout.h : i \in 1..Len(items)})
      maxX == SetMax({0} \cup
                     {items[i].layout.x + items[i].layout.w :
                        i \in {j \in 1..Len(items) :
                                 items[j].layout.y + items[j].layout.h = gridMaxY}})
      fits == maxX <= COLS - ITEM_WIDTH
  IN MkLayout(IF fits THEN maxX ELSE 0,
              IF fits THEN gridMaxY - ITEM_HEIGHT ELSE gridMaxY,
              ITEM_WIDTH, ITEM_HEIGHT, ~locked, ~locked)

NewItemLayout(items, locked) ==
  LET gridMaxY == IF Len(items) = 0 THEN 0
                  ELSE SetMax({items[i].layout.y + items[i].layout.h : i \in 1..Len(items)})
      maxX == SetMax({items[i].layout.x + items[i].layout.w :
                        i \in {j \in 1..Len(items) :
                                 items[j].layout.y + items[j].layout.h = gridMaxY}})
      fits == Len(items) # 0 /\ maxX <= COLS - ITEM_WIDTH
  IN MkLayout(IF fits THEN maxX ELSE 0,
              IF fits THEN gridMaxY - ITEM_HEIGHT ELSE gridMaxY,
              ITEM_WIDTH, ITEM_HEIGHT, ~locked, ~locked)

\* The views offered to addItem in the explored runs.
AddViews == {CAMERA_VIEW, OPMODE_VIEW}

addItem ==
  \E item \in AddViews :
    LET addrs == AllocSeq(DOMAIN heap, 1)
        new == MkItem(FreshId(heap, 1), item,
                      NewItemLayout(Deref(currentHead, heap), isLayoutLocked))
        h1 == Store(heap, addrs, <<new>>)
    IN /\ ViewPickerOpen
       /\ CanAlloc(heap, 1)
       /\ Handle(AppendAction(currentHead \o addrs), h1)
       /\ lastOp' = "addItem"
       /\ UNCHANGED graphVars
       /\ UNCHANGED <<isLayoutLocked, isInDeleteMode, isShowingViewPicker, mounted, rt>>

\* The delete button of a panel takes clicks while delete mode is on.
removeItem ==
  \E id \in {heap[a].id : a \in Range(currentHead)} :
    /\ mounted
    /\ isInDeleteMode
    /\ Handle(AppendAction(SelectSeq(currentHead, LAMBDA a : heap[a].id # id)), heap)
    /\ lastOp' = "removeItem"
    /\ UNCHANGED graphVars
    /\ UNCHANGED <<isLayoutLocked, isInDeleteMode, isShowingViewPicker, mounted, rt>>

\* What the grid library reports through onLayoutChange: the layout it was
\* given (flags included), with at most one panel moved or resized by the
\* user; a panel can be moved only while draggable and resized only while
\* resizable.
Gestures ==
  {[kind |-> "none", a |-> 0, b |-> 0],
   [kind |-> "move", a |-> 0, b |-> 20],
   [kind |-> "resize", a |-> 3, b |-> 5]}

ReportedLayout(item, g) ==
  IF g.kind = "move" THEN [item.layout EXCEPT !.x = g.a, !.y = g.b]
  ELSE IF g.kind = "resize" THEN [item.layout EXCEPT !.w = g.a, !.h = g.b]
  ELSE item.layout

GestureAllowed(item, g) ==
  /\ g.kind = "move" => item.layout.isDraggable
  /\ g.kind = "resize" => item.layout.isResizable

onLayoutChange ==
  \E k \in 0..Len(currentHead), g \in Gestures :
    LET addrs == AllocSeq(DOMAIN heap, Len(currentHead))
        newItems == [i \in 1..Len(currentHead) |->
                       [heap[currentHead[i]] EXCEPT !.layout =
                          ReportedLayout(heap[currentHead[i]],
                                         IF i = k THEN g
                                         ELSE [kind |-> "none", a |-> 0, b |-> 0])]]
        h1 == Store(heap, addrs, newItems)
    IN /\ mounted
       /\ (k = 0) = (g.kind = "none")
       /\ k # 0 => GestureAllowed(heap[currentHead[k]], g)
       /\ CanAlloc(heap, Len(currentHead))
       /\ Handle(AppendAction(addrs), h1)
       /\ lastOp' = "onLayoutChange"
       /\ UNCHANGED graphVars
       /\ UNCHANGED <<isLayoutLocked, isInDeleteMode, isShowingViewPicker, mounted, rt>>

\* keydown events: the modifier keys and the key pressed.
KeyEvents ==
  [metaKey : BOOLEAN, ctrlKey : BOOLEAN, shiftKey : BOOLEAN, key : {"z", "y", "x"}]

KeyCommand_IgnoresLock(e, locked, idx) ==
  IF idx # 1
  THEN IF e.metaKey /\ e.key = "z"
       THEN IF e.shiftKey THEN "REDO" ELSE "UNDO"
       ELSE IF e.ctrlKey /\ e.key = "z" THEN "UNDO"
       ELSE IF e.ctrlKey /\ e.key = "y" THEN "REDO"
       ELSE "NONE"
  ELSE "NONE"

\* What keyDownListener dispatches for event e.
KeyCommand(e, locked, idx) ==
  IF ~locked /\ idx # 1
  THEN IF e.metaKey /\ e.key = "z"
       THEN IF e.shiftKey THEN "REDO" ELSE "UNDO"
       ELSE IF e.ctrlKey /\ e.key = "z" THEN "UNDO"
       ELSE IF e.ctrlKey /\ e.key = "y" THEN "REDO"
       ELSE "NONE"
  ELSE "NONE"

\* window.navigator.userAgent.indexOf('Mac'), read by the listener on every
\* event: absent, at index 1, or elsewhere.
MacIndexes == {-1, 1, 13}

\* Some keydown event on some platform makes the listener dispatch cmd.
KeyDownYields(cmd) ==
  {x \in KeyEvents \X MacIndexes : KeyCommand(x[1], isLayoutLocked, x[2]) = cmd} # {}

keyDownUndo ==
  /\ mounted
  /\ KeyDownYields("UNDO")
  /\ Len(actionHistory) < MaxLog
  /\ Handle(UndoAction, heap)
  /\ lastOp' = "undo"
  /\ UNCHANGED graphVars
  /\ UNCHANGED <<isLayoutLocked, isInDeleteMode, isShowingViewPicker, mounted, rt>>

keyDownRedo ==
  /\ mounted
  /\ KeyDownYields("REDO")
  /\ Len(actionHistory) < MaxLog
  /\ Handle(RedoAction, heap)
  /\ lastOp' = "redo"
  /\ UNCHANGED graphVars
  /\ UNCHANGED <<isLayoutLocked, isInDeleteMode, isShowingViewPicker, mounted, rt>>

keyDownIgnored ==
  /\ mounted
  /\ KeyDownYields("NONE")
  /\ lastOp' = "keydown"
  /\ UNCHANGED graphVars
  /\ NoDispatch
  /\ UNCHANGED <<heap, isLayoutLocked, isInDeleteMode, isShowingViewPicker, storage,
                 mounted, dispatched, rt>>

\* The page is loaded again: component state starts over, the stored layout
\* stays.
Reload ==
  /\ mounted
  /\ dispatched < MaxActions
  /\ heap' = << >>
  /\ gridStateHistory' = <<>>
  /\ actionHistory' = <<>>
  /\ currentHistoryPosition' = -1
  /\ currentHead' = <<>>
  /\ isLayoutLocked' = TRUE
  /\ isInDeleteMode' = FALSE
  /\ isShowingViewPicker' = FALSE
  /\ mounted' = FALSE
  /\ lastOp' = "reload"
  /\ UNCHANGED graphVars
  /\ lastAction' = NoAction
  /\ pre' = EmptyState
  /\ UNCHANGED <<storage, dispatched, rt>>

Init ==
  /\ InitCommon
  /\ heap = << >>
  /\ rt = RtIdle

Next ==
  \/ Mount
  \/ clickFAB
  \/ ToggleViewPicker
  \/ ToggleDeleteMode
  \/ ClearLayout
  \/ addItem
  \/ removeItem
  \/ onLayoutChange
  \/ keyDownUndo
  \/ keyDownRedo
  \/ keyDownIgnored
  \/ Reload

Spec == Init /\ [][Next]_vars

\* The component driven through its keyboard listener only: the page is
\* mounted, locked and unlocked, panels are added, keys are pressed.
NextKeyboard ==
  \/ Mount
  \/ clickFAB
  \/ ToggleViewPicker
  \/ addItem
  \/ keyDownUndo
  \/ keyDownRedo
  \/ keyDownIgnored

SpecKeyboard == Init /\ [][NextKeyboard]_vars

\* The component driven through the operations that shape the head addItem
\* works on: the page is mounted, unlocked, cleared, panels are moved and
\* resized, and panels are added from the view picker.
NextPlacement ==
  \/ Mount
  \/ clickFAB
  \/ ToggleViewPicker
  \/ ClearLayout
  \/ addItem
  \/ onLayoutChange

SpecPlacement == Init /\ [][NextPlacement]_vars

\* A later visit: the layout key holds what an earlier visit saved.  The
\* layouts are those left by clearing the grid, adding a panel or two and
\* dragging their resize handles: panels two columns wide at the top of the
\* grid, two or four rows high, saved Unlocked or Locked.
StoredPanel(id, x, h, flag) == MkItem(id, CAMERA_VIEW, MkLayout(x, 0, 2, h, flag, flag))

StoredLayouts ==
  {[present |-> TRUE, items |-> <<StoredPanel(1, 0, h, flag)>>] :
     h \in {2, 4}, flag \in BOOLEAN}
  \cup {[present |-> TRUE,
         items |-> <<StoredPanel(1, 0, h, TRUE), StoredPanel(2, x, 2, TRUE)>>] :
          h \in {2, 4}, x \in {2, 4}}

InitStored ==
  /\ \E blob \in StoredLayouts : InitWith(blob)
  /\ heap = << >>
  /\ rt = RtIdle

SpecStored == InitStored /\ [][NextPlacement]_vars

(***************************************************************************)
(* The other copy of the component (src/unnamed/part_001), which keeps its *)
(* history in the hook useUndoHistory.  The hook's source is not part of   *)
(* the files modelled; it is modelled from its description: Initialize is  *)
(* valid on the empty history only and seeds it with one snapshot; Append, *)
(* Undo and Redo are the transitions of the reducer above.                 *)
(***************************************************************************)
InitializeAction(p) == [type |-> "INITIALIZE", payload |-> p]

useUndoHistory(state, action, h) ==
  IF action.type = "INITIALIZE"
  THEN IF Len(state.gridStateHistory) = 0
       THEN MkState(<<action.payload>>, <<>>, 0, action.payload)
       ELSE state
  ELSE stateHistoryReducer(state, action, h)

\* A handler of part_001 calling the hook, followed by render and the
\* persistence effect on [gridItems].
HandleHook(action, h) ==
  LET s == useUndoHistory(CurState, action, h)
      effective == s.gridStateHistory # gridStateHistory
  IN /\ action.type \in {"APPEND", "INITIALIZE"} => dispatched < MaxActions
     /\ gridStateHistory' = s.gridStateHistory
     /\ actionHistory' = s.actionHistory
     /\ currentHistoryPosition' = s.currentHistoryPosition
     /\ currentHead' = s.currentHead
     /\ lastAction' = action
     /\ pre' = CurState
     /\ dispatched' = IF effective THEN dispatched + 1 ELSE dispatched
     /\ storage' = PersistEffect(CurState, s, h)
     /\ heap' = Collect(h, s)

\* Mount effect of part_001: every panel read is forced non-interactive and
\* the lock keeps its initial value.
MountHook ==
  \E height \in Heights :
    LET read == IF storage.present THEN storage.items ELSE DefaultFor(height)
        newGridItems == [i \in 1..Len(read) |-> Flagged(read[i], FALSE)]
        addrs == AllocSeq(DOMAIN heap, Len(newGridItems))
        h1 == Store(heap, addrs, newGridItems)
    IN /\ ~mounted
       /\ CanAlloc(heap, Len(newGridItems))
       /\ HandleHook(InitializeAction(addrs), h1)
       /\ mounted' = TRUE
       /\ lastOp' = "mount"
       /\ UNCHANGED graphVars
       /\ UNCHANGED <<isLayoutLocked, isInDeleteMode, isShowingViewPicker, rt>>

clickFABHook ==
  LET toBeLocked == ~isLayoutLocked
      h1 == MutateFlags(heap, currentHead, ~toBeLocked)
  IN /\ mounted
     /\ isLayoutLocked' = toBeLocked
     /\ HandleHook(AppendAction(currentHead), h1)
     /\ isShowingViewPicker' = IF toBeLocked THEN FALSE ELSE isShowingViewPicker
     /\ isInDeleteMode' = IF toBeLocked THEN FALSE ELSE isInDeleteMode
     /\ lastOp' = "clickFAB"
     /\ UNCHANGED graphVars
     /\ UNCHANGED <<mounted, rt>>

ToggleViewPickerHook ==
  /\ FabChildrenOpen
  /\ isShowingViewPicker' = ~isShowingViewPicker
  /\ lastOp' = "toggleViewPicker"
  /\ UNCHANGED graphVars
  /\ NoDispatch
  /\ UNCHANGED <<heap, isLayoutLocked, isInDeleteMode, storage, mounted, dispatched, rt>>

ToggleDeleteModeHook ==
  /\ FabChildrenOpen
  /\ isInDeleteMode' = ~isInDeleteMode
  /\ lastOp' = "toggleDeleteMode"
  /\ UNCHANGED graphVars
  /\ NoDispatch
  /\ UNCHANGED <<heap, isLayoutLocked, isShowingViewPicker, storage, mounted,
                 dispatched, rt>>

ClearLayoutHook ==
  /\ FabChildrenOpen
  /\ HandleHook(AppendAction(<<>>), heap)
  /\ lastOp' = "clear"
  /\ UNCHANGED graphVars
  /\ UNCHANGED <<isLayoutLocked, isInDeleteMode, isShowingViewPicker, mounted, rt>>

\* maxArray(a, b): the lexicographically larger pair, a on a tie.
maxArray(a, b) ==
  IF a[1] > b[1] THEN a
  ELSE IF b[1] > a[1] THEN b
  ELSE IF a[2] > b[2] THEN a
  ELSE IF b[2] > a[2] THEN b
  ELSE a

RECURSIVE ReduceMaxArray(_, _, _)
ReduceMaxArray(pairs, i, acc) ==
  IF i > Len(pairs) THEN acc
  ELSE ReduceMaxArray(pairs, i + 1, maxArray(acc, pairs[i]))

intervalsIntersect(ab, cd) == Max(ab[1], cd[1]) < Min(ab[2], cd[2])

NewItemLayoutHook_NoRowPush(items, locked) ==
  LET pairs == [i \in 1..Len(items) |->
                  <<items[i].layout.y + items[i].layout.h,
                    items[i].layout.x + items[i].layout.w>>]
      best == ReduceMaxArray(pairs, 1, <<0, 0>>)
      wrap == best[2] + ITEM_WIDTH > GRID_COL
      newItemLeft == IF wrap THEN 0 ELSE best[2]
      newItemBotMin == best[1]
      above == {items[i].layout.y + items[i].layout.h :
                  i \in {j \in 1..Len(items) :
                           intervalsIntersect(<<newItemLeft, newItemLeft + ITEM_WIDTH>>,
                                              <<items[j].layout.x,
                                                items[j].layout.x + items[j].layout.w>>)}}
      newItemTopMin == SetMax(above \cup {0})
      newItemTop == Max(newItemBotMin - ITEM_HEIGHT, newItemTopMin)
  IN MkLayout(newItemLeft, newItemTop, ITEM_WIDTH, ITEM_HEIGHT, ~locked, ~locked)

\* The layout part_001's addItem gives the new panel.
NewItemLayoutHook(items, locked) ==
  LET pairs == [i \in 1..Len(items) |->
                  <<items[i].layout.y + items[i].layout.h,
                    items[i].layout.x + items[i].layout.w>>]
      best == ReduceMaxArray(pairs, 1, <<0, 0>>)
      wrap == best[2] + ITEM_WIDTH > GRID_COL
      newItemLeft == IF wrap THEN 0 ELSE best[2]
      newItemBotMin == IF wrap THEN best[1] + ITEM_HEIGHT ELSE best[1]
      above == {items[i].layout.y + items[i].layout.h :
                  i \in {j \in 1..Len(items) :
                           intervalsIntersect(<<newItemLeft, newItemLeft + ITEM_WIDTH>>,
                                              <<items[j].layout.x,
                                                items[j].layout.x + items[j].layout.w>>)}}
      newItemTopMin == SetMax(above \cup {0})
      newItemTop == Max(newItemBotMin - ITEM_HEIGHT, newItemTopMin)
  IN MkLayout(newItemLeft, newItemTop, ITEM_WIDTH, ITEM_HEIGHT, ~locked, ~locked)

addItemHook ==
  \E item \in AddViews :
    LET addrs == AllocSeq(DOMAIN heap, 1)
        new == MkItem(FreshId(heap, 1), item,
                      NewItemLayoutHook(Deref(currentHead, heap), isLayoutLocked))
        h1 == Store(heap, addrs, <<new>>)
    IN /\ ViewPickerOpen
       /\ CanAlloc(heap, 1)
       /\ HandleHook(AppendAction(currentHead \o addrs), h1)
       /\ lastOp' = "addItem"
       /\ UNCHANGED graphVars
       /\ UNCHANGED <<isLayoutLocked, isInDeleteMode, isShowingViewPicker, mounted, rt>>

removeItemHook ==
  \E id \in {heap[a].id : a \in Range(currentHead)} :
    /\ mounted
    /\ isInDeleteMode
    /\ HandleHook(AppendAction(SelectSeq(currentHead, LAMBDA a : heap[a].id # id)), heap)
    /\ lastOp' = "removeItem"
    /\ UNCHANGED graphVars
    /\ UNCHANGED <<isLayoutLocked, isInDeleteMode, isShowingViewPicker, mounted, rt>>

onLayoutChangeHook ==
  \E k \in 0..Len(currentHead), g \in Gestures :
    LET addrs == AllocSeq(DOMAIN heap, Len(currentHead))
        newItems == [i \in 1..Len(currentHead) |->
                       [heap[currentHead[i]] EXCEPT !.layout =
                          ReportedLayout(heap[currentHead[i]],
                                         IF i = k THEN g
                                         ELSE [kind |-> "none", a |-> 0, b |-> 0])]]
        h1 == Store(heap, addrs, newItems)
    IN /\ mounted
       /\ (k = 0) = (g.kind = "none")
       /\ k # 0 => GestureAllowed(heap[currentHead[k]], g)
       /\ CanAlloc(heap, Len(currentHead))
       /\ HandleHook(AppendAction(addrs), h1)
       /\ lastOp' = "onLayoutChange"
       /\ UNCHANGED graphVars
       /\ UNCHANGED <<isLayoutLocked, isInDeleteMode, isShowingViewPicker, mounted, rt>>

\* navigator.platform.indexOf('Mac'): absent or at the start.
PlatformMacIndexes == {-1, 0}

\* What part_001's keyDownListener dispatches for event e.
KeyCommandHook(e, locked, idx) ==
  IF ~locked /\ idx > -1
  THEN IF e.metaKey /\ e.key = "z"
       THEN IF e.shiftKey THEN "REDO" ELSE "UNDO"
       ELSE IF e.ctrlKey /\ e.key = "z" THEN "UNDO"
       ELSE IF e.ctrlKey /\ e.key = "y" THEN "REDO"
       ELSE "NONE"
  ELSE "NONE"

KeyDownYieldsHook(cmd) ==
  {x \in KeyEvents \X PlatformMacIndexes :
     KeyCommandHook(x[1], isLayoutLocked, x[2]) = cmd} # {}

keyDownUndoHook ==
  /\ mounted
  /\ KeyDownYieldsHook("UNDO")
  /\ Len(actionHistory) < MaxLog
  /\ HandleHook(UndoAction, heap)
  /\ lastOp' = "undo"
  /\ UNCHANGED graphVars
  /\ UNCHANGED <<isLayoutLocked, isInDeleteMode, isShowingViewPicker, mounted, rt>>

keyDownRedoHook ==
  /\ mounted
  /\ KeyDownYieldsHook("REDO")
  /\ Len(actionHistory) < MaxLog
  /\ HandleHook(RedoAction, heap)
  /\ lastOp' = "redo"
  /\ UNCHANGED graphVars
  /\ UNCHANGED <<isLayoutLocked, isInDeleteMode, isShowingViewPicker, mounted, rt>>

keyDownIgnoredHook ==
  /\ mounted
  /\ KeyDownYieldsHook("NONE")
  /\ lastOp' = "keydown"
  /\ UNCHANGED graphVars
  /\ NoDispatch
  /\ UNCHANGED <<heap, isLayoutLocked, isInDeleteMode, isShowingViewPicker, storage,
                 mounted, dispatched, rt>>

NextHook ==
  \/ MountHook
  \/ clickFABHook
  \/ ToggleViewPickerHook
  \/ ToggleDeleteModeHook
  \/ ClearLayoutHook
  \/ addItemHook
  \/ removeItemHook
  \/ onLayoutChangeHook
  \/ keyDownUndoHook
  \/ keyDownRedoHook
  \/ keyDownIgnoredHook
  \/ Reload

SpecHook == Init /\ [][NextHook]_vars

\* The other copy driven through the same operations.
NextPlacementHook ==
  \/ MountHook
  \/ clickFABHook
  \/ ToggleViewPickerHook
  \/ ClearLayoutHook
  \/ addItemHook
  \/ onLayoutChangeHook

SpecPlacementHook == Init /\ [][NextPlacementHook]_vars

(***************************************************************************)
(* Graph.js: the sample buffers, add, render and reset                     *)
(***************************************************************************)
Entry(name, value) == [name |-> name, value |-> value]

TimeEntry(t) == Entry("time", Num(t))

\* sample.reduce((acc, {name, value}) => name === 'time' ? value : acc, NaN):
\* the value of the last entry named "time", NaN when there is none.
SampleTime(sample) ==
  LET at == {i \in 1..Len(sample) : sample[i].name = "time"}
  IN IF at = {} THEN NaN ELSE sample[SetMax(at)].value

\* Index of the series called name in d, 0 when this.data has no such own
\* property.
SeriesIndex(d, name) ==
  IF \E i \in 1..Len(d) : d[i].name = name
  THEN CHOOSE i \in 1..Len(d) : d[i].name = name
  ELSE 0

\* Property names that are array indices ("1", "2", ...): Object.keys lists
\* them first, in ascending numeric order, before the other names, which
\* follow in the order they were created.
KeyNumber(name) ==
  CASE name = "0" -> 0 [] name = "1" -> 1 [] name = "2" -> 2 [] name = "10" -> 10
    [] OTHER -> -1

IsArrayIndex(name) == KeyNumber(name) >= 0

\* this.data[name] = series on an object without that property, with the
\* series kept in Object.keys order.
InsertSeries(d, series) ==
  IF IsArrayIndex(series.name)
  THEN LET k == Cardinality({i \in 1..Len(d) :
                               /\ IsArrayIndex(d[i].name)
                               /\ KeyNumber(d[i].name) < KeyNumber(series.name)})
       IN SubSeq(d, 1, k) \o <<series>> \o SubSeq(d, k + 1, Len(d))
  ELSE Append(d, series)

\* The series object add creates; its colour is picked by the number of keys.
NewSeries(d, name) ==
  [name |-> name, ts |-> <<>>, vs |-> <<>>,
   color |-> colors[(Len(d) % Len(colors)) + 1]]

\* Variant that pushes the timestamp but not the value.
PushEntry_TimestampOnly(d, name, t, value) ==
  LET d1 == IF SeriesIndex(d, name) = 0 THEN InsertSeries(d, NewSeries(d, name)) ELSE d
      i == SeriesIndex(d1, name)
  IN [d1 EXCEPT ![i].ts = Append(@, t)]

\* Lines 142-152: create the series if needed, push t and value.
PushEntry(d, name, t, value) ==
  LET d1 == IF SeriesIndex(d, name) = 0 THEN InsertSeries(d, NewSeries(d, name)) ELSE d
      i == SeriesIndex(d1, name)
  IN [d1 EXCEPT ![i].ts = Append(@, t), ![i].vs = Append(@, value)]

\* Variant without the isNaN test.
AddEntry_KeepsNaN(d, entry, t) ==
  IF entry.name = "time" THEN d
  ELSE PushEntry(d, entry.name, t, entry.value)

\* The body of the inner loop of add for one entry.
AddEntry(d, entry, t) ==
  IF entry.name = "time" THEN d
  ELSE IF isNaN(entry.value) THEN d
  ELSE PushEntry(d, entry.name, t, entry.value)

RECURSIVE AddEntries(_, _, _, _)
AddEntries(d, sample, i, t) ==
  IF i > Len(sample) THEN d
  ELSE AddEntries(AddEntry(d, sample[i], t), sample, i + 1, t)

RECURSIVE AddSamples(_, _, _)
AddSamples(d, samples, k) ==
  IF k > Len(samples) THEN d
  ELSE AddSamples(AddEntries(d, samples[k], 1, SampleTime(samples[k])), samples, k + 1)

\* Variant that anchors at the last sample's time, without the lag.
MinusLag_NoLag(t) == IF t.kind = "number" THEN Num(t.v) ELSE NaN

\* maxT - 250 in JavaScript arithmetic.
MinusLag(t) == IF t.kind = "number" THEN Num(t.v - LagMs) ELSE NaN

\* Variant that anchors again on every non-empty batch.
ShouldAnchor_EveryBatch(begin, samples) == Len(samples) > 0

\* Line 156: the test that guards the anchoring.
ShouldAnchor(begin, samples) == isNaN(begin) /\ Len(samples) > 0

\* this.beginGraphNowMs + (Date.now() - this.beginRenderTimeMs)
GraphNowMs(beginGraph, beginRender, clock) ==
  IF beginGraph.kind = "number" /\ beginRender.kind = "number"
  THEN Num(beginGraph.v + (clock - beginRender.v))
  ELSE NaN

\* ts[0] + o.windowMs + 250 < graphNowMs; a comparison with NaN is false.
TooOld(t, g) ==
  /\ t.kind = "number"
  /\ g.kind = "number"
  /\ t.v + windowMs + LagMs < g.v

\* Variant that evicts at most one sample per call.
PruneSeries_OnePerCall(series, g) ==
  IF Len(series.ts) > 0 /\ TooOld(series.ts[1], g)
  THEN [series EXCEPT !.ts = Tail(@), !.vs = Tail(@)]
  ELSE series

\* Variant that forgets vs.shift().
RECURSIVE PruneSeries_TimestampsOnly(_, _)
PruneSeries_TimestampsOnly(series, g) ==
  IF Len(series.ts) > 0 /\ TooOld(series.ts[1], g)
  THEN PruneSeries_TimestampsOnly([series EXCEPT !.ts = Tail(@)], g)
  ELSE series

\* The while loop of lines 197-200 on one series.
RECURSIVE PruneSeries(_, _)
PruneSeries(series, g) ==
  IF Len(series.ts) > 0 /\ TooOld(series.ts[1], g)
  THEN PruneSeries([series EXCEPT !.ts = Tail(@), !.vs = Tail(@)], g)
  ELSE series

\* Variant that deletes the key of a series the loop has emptied.
Prune_DropsEmptied(d, g) ==
  SelectSeq([i \in 1..Len(d) |-> PruneSeries(d[i], g)], LAMBDA s : Len(s.ts) > 0)

Prune(d, g) == [i \in 1..Len(d) |-> PruneSeries(d[i], g)]

\* Variant that reports a drawing even when nothing is held.
AllEmpty_Never(d) == FALSE

AllEmpty(d) == \A i \in 1..Len(d) : Len(d[i].ts) = 0

\* scale(value, fromLow, fromHigh, toLow, toHigh) as the exact fraction
\* num / den, den = fromHigh - fromLow.
scale(value, fromLow, fromHigh, toLow, toHigh) ==
  [num |-> toLow * (fromHigh - fromLow) + (toHigh - toLow) * (value - fromLow),
   den |-> fromHigh - fromLow]

\* The X coordinate renderGraphLines gives a sample of time t.
PointX(t, g, width) ==
  IF t.kind = "number" /\ g.kind = "number"
  THEN scale(t.v - g.v + windowMs, 0, windowMs, 0, width)
  ELSE [num |-> 0, den |-> 0]

\* The polylines of renderGraphLines: one per non-empty series, coloured by
\* the position of its key.
GraphLines(d, g, width) ==
  [i \in 1..Len(d) |->
     [name |-> d[i].name,
      color |-> colors[((i - 1) % Len(colors)) + 1],
      drawn |-> Len(d[i].ts) # 0,
      xs |-> [j \in 1..Len(d[i].ts) |-> PointX(d[i].ts[j], g, width)]]]

\* Number(x) as Math.min and Math.max apply it to a held value: null is 0,
\* a numeric string is its number.
ToNumber(x) == IF x.kind \in {"number", "MAX_VALUE", "MIN_VALUE"} THEN x ELSE Num(x.v)

\* a < b on doubles: MAX_VALUE is above every other value, MIN_VALUE lies
\* strictly between 0 and 1.
NumLess(a, b) ==
  IF a.kind = "MAX_VALUE" THEN FALSE
  ELSE IF b.kind = "MAX_VALUE" THEN TRUE
  ELSE IF a.kind = "MIN_VALUE" THEN b.kind = "number" /\ b.v >= 1
  ELSE IF b.kind = "MIN_VALUE" THEN a.v <= 0
  ELSE a.v < b.v

MathMin(a, b) == IF NumLess(ToNumber(b), ToNumber(a)) THEN ToNumber(b) ELSE ToNumber(a)
MathMax(a, b) == IF NumLess(ToNumber(a), ToNumber(b)) THEN ToNumber(b) ELSE ToNumber(a)

\* The inner reduce over one series' values, from accumulator acc.
RECURSIVE ReduceValues(_, _, _)
ReduceValues(vs, j, acc) ==
  IF j > Len(vs) THEN acc
  ELSE ReduceValues(vs, j + 1, <<MathMin(vs[j], acc[1]), MathMax(vs[j], acc[2])>>)

\* The outer reduce over the series, in key order.
RECURSIVE ReduceSeries(_, _, _)
ReduceSeries(d, i, acc) ==
  IF i > Len(d) THEN acc
  ELSE ReduceSeries(d, i + 1, ReduceValues(d[i].vs, 1, acc))

\* Math.abs(min - max) < 1e-6 on the values the reduce can return: equal
\* numbers, or 0 next to MIN_VALUE.
WithinEpsilon(min, max) ==
  \/ min = max
  \/ {min, max} = {Num(0), MIN_VALUE}

\* x + n in double arithmetic for a whole n other than 0: MIN_VALUE is lost
\* in the rounding.
PlusWhole(x, n) ==
  IF x.kind = "number" THEN Num(x.v + n)
  ELSE IF x.kind = "MIN_VALUE" THEN Num(n)
  ELSE x

\* The [min, max] pair getYAxisScaling reduces this.data to.
YExtrema(d) == ReduceSeries(d, 1, <<MAX_VALUE, MIN_VALUE>>)

\* getYAxisScaling: the extrema found and the range handed to
\* getAxisScaling, padded by 1 on both sides when the extrema coincide.
getYAxisScaling(d) ==
  LET ext == YExtrema(d)
      min == ext[1]
      max == ext[2]
      pad == WithinEpsilon(min, max)
  IN [called |-> TRUE, min |-> min, max |-> max, padded |-> pad,
      low |-> IF pad THEN PlusWhole(min, -1) ELSE min,
      high |-> IF pad THEN PlusWhole(max, 1) ELSE max]

\* render() as a function of the graph's state, the clock and the width of
\* the plot rectangle: the buffers it leaves, what it returns and plots.
Render(d, beginGraph, beginRender, clock, width) ==
  IF isNaN(beginGraph)
  THEN [data |-> d, result |-> FALSE, graphNowMs |-> NaN, points |-> <<>>,
        yAxis |-> NoYAxis]
  ELSE LET g == GraphNowMs(beginGraph, beginRender, clock)
           d1 == Prune(d, g)
       IN IF AllEmpty(d1)
          THEN [data |-> d1, result |-> FALSE, graphNowMs |-> g, points |-> <<>>,
                yAxis |-> NoYAxis]
          ELSE [data |-> d1, result |-> TRUE, graphNowMs |-> g,
                points |-> GraphLines(d1, g, width),
                yAxis |-> getYAxisScaling(d1)]

(***************************************************************************)
(* The graph driven by its callers: batches arrive, frames are rendered,   *)
(* the wall clock advances                                                 *)
(***************************************************************************)
MaxAdds == 2         \* add calls explored

\* Samples as the interface describes them: an ordered sequence of entries,
\* one of them named "time".  Values cover numbers, NaN, missing values and
\* non-numeric values; the time entry need not come first.
Samples ==
  { <<TimeEntry(0), Entry("a", Num(1))>>,
    <<TimeEntry(300), Entry("a", Num(2))>>,
    <<Entry("a", Num(1)), TimeEntry(300), Entry("b", NaN)>>,
    <<TimeEntry(300), Entry("b", Null), Entry("a", Undefined)>>,
    <<TimeEntry(6000), Entry("b", Num(-3))>>,
    <<TimeEntry(0), Entry("a", OtherString), Entry("b", NumericString(5))>> }

Batches ==
  {<<>>} \cup {<<s>> : s \in Samples}
  \cup { << <<TimeEntry(0), Entry("a", Num(1))>>,
            <<TimeEntry(300), Entry("a", Num(2)), Entry("b", Num(-3))>> >> }

\* Readings of Date.now() at which calls are made: the start, 250 and 550 ms
\* later, and the instants around which the samples of time 0 and 300 leave
\* the window of a graph anchored at the start.
ClockReadings == {1000, 1250, 1550, 6500, 6501, 6801}

\* Widths of the plot rectangle, in CSS pixels.
PlotWidths == {500}

layoutVars == <<heap, gridStateHistory, actionHistory, currentHistoryPosition,
                currentHead, isLayoutLocked, isInDeleteMode, isShowingViewPicker,
                storage, mounted, dispatched, lastAction, pre, rt>>

\* The entries of a batch that add pushes, in order, as <<name, time, value>>.
Pushed(samples) ==
  LET flat == [k \in 1..Len(samples) |->
                 [i \in 1..Len(samples[k]) |->
                    <<samples[k][i].name, SampleTime(samples[k]), samples[k][i].value>>]]
      RECURSIVE Concat(_)
      Concat(k) == IF k > Len(samples) THEN <<>> ELSE flat[k] \o Concat(k + 1)
  IN SelectSeq(Concat(1), LAMBDA e : e[1] # "time" /\ ~isNaN(e[3]))

\* Everything pushed by the add calls made since reset, in order.
RECURSIVE PushedBy(_, _)
PushedBy(calls, k) ==
  IF k > Len(calls) THEN <<>> ELSE Pushed(calls[k].samples) \o PushedBy(calls, k + 1)

addedLog == PushedBy(addCalls, 1)

\* add(samples) called with the batch samples.
AddBatch(samples) ==
  LET anchor == ShouldAnchor(beginGraphNowMs, samples)
  IN /\ adds < MaxAdds
     /\ data' = AddSamples(data, samples, 1)
     /\ beginGraphNowMs' =
          IF anchor THEN MinusLag(SampleTime(samples[Len(samples)]))
          ELSE beginGraphNowMs
     /\ beginRenderTimeMs' = IF anchor THEN Num(now) ELSE beginRenderTimeMs
     /\ adds' = adds + 1
     /\ addCalls' = Append(addCalls, [samples |-> samples, at |-> now])
     /\ lastOp' = "add"
     /\ UNCHANGED <<now, lastRender, scaling, layoutVars>>

add == \E samples \in Batches : AddBatch(samples)

render ==
  \E width \in PlotWidths :
    LET r == Render(data, beginGraphNowMs, beginRenderTimeMs, now, width)
    IN /\ data' = r.data
       /\ lastRender' = [called |-> TRUE, result |-> r.result, at |-> now,
                         graphNowMs |-> r.graphNowMs, width |-> width,
                         points |-> r.points, yAxis |-> r.yAxis]
       /\ lastOp' = "render"
       /\ UNCHANGED <<beginGraphNowMs, beginRenderTimeMs, now, adds, addCalls,
                      scaling, layoutVars>>

reset ==
  /\ adds > 0
  /\ data' = <<>>
  /\ beginGraphNowMs' = NaN
  /\ beginRenderTimeMs' = NaN
  /\ addCalls' = <<>>
  /\ lastOp' = "reset"
  /\ UNCHANGED <<now, adds, lastRender, scaling, layoutVars>>

\* Time passes between two calls.
Tick ==
  \E t \in ClockReadings :
    /\ t > now
    /\ now' = t
    /\ lastOp' = "tick"
    /\ UNCHANGED <<data, beginGraphNowMs, beginRenderTimeMs, adds, addCalls,
                   lastRender, scaling, layoutVars>>

InitGraphSpec ==
  /\ InitCommon
  /\ heap = << >>
  /\ rt = RtIdle

NextGraph == add \/ render \/ reset \/ Tick

SpecGraph == InitGraphSpec /\ [][NextGraph]_vars

(***************************************************************************)
(* The graph fed with batches that create series: more series than the     *)
(* palette has colours, names that are array indices, a name whose first   *)
(* value add skips                                                         *)
(***************************************************************************)
SeriesBatches ==
  { << <<TimeEntry(0), Entry("a", Num(1)), Entry("b", Num(1)), Entry("c", Num(1))>> >>,
    << <<TimeEntry(0), Entry("d", Num(1))>>,
       <<TimeEntry(0), Entry("e", Num(1)), Entry("f", Num(1))>> >>,
    << <<TimeEntry(0), Entry("a", NaN), Entry("b", Num(1))>> >>,
    << <<TimeEntry(0), Entry("a", Num(1))>> >>,
    << <<TimeEntry(0), Entry("2", Num(1))>> >>,
    << <<TimeEntry(0), Entry("1", Num(1))>> >> }

addSeries == \E samples \in SeriesBatches : AddBatch(samples)

NextColours == addSeries \/ render \/ reset

SpecColours == InitGraphSpec /\ [][NextColours]_vars

(***************************************************************************)
(* Graph.js: axis scaling                                                  *)
(***************************************************************************)
RECURSIVE Pow10(_)
Pow10(k) == IF k <= 0 THEN 1 ELSE 10 * Pow10(k - 1)

\* 10^e as a fraction, e of either sign.
FracPow10(e) ==
  IF e >= 0 THEN [num |-> Pow10(e), den |-> 1] ELSE [num |-> 1, den |-> Pow10(-e)]

FracMul(p, q) == [num |-> p.num * q.num, den |-> p.den * q.den]
FracDiv(p, q) == [num |-> p.num * q.den, den |-> p.den * q.num]
FracSub(p, q) == [num |-> p.num * q.den - q.num * p.den, den |-> p.den * q.den]

\* Math.floor of a fraction with positive denominator.
FracFloor(p) == p.num \div p.den

\* Math.floor(Math.log10(x)) for x > 0: the e with 10^e <= x < 10^(e+1).
RECURSIVE ExponentUp(_, _)
ExponentUp(x, e) ==
  IF FracLeq(FracPow10(e + 1), x) THEN ExponentUp(x, e + 1) ELSE e

RECURSIVE ExponentDown(_, _)
ExponentDown(x, e) ==
  IF FracLeq(FracPow10(e), x) THEN e ELSE ExponentDown(x, e - 1)

Exponent(x) ==
  IF FracLeq(Whole(1), x) THEN ExponentUp(x, 0) ELSE ExponentDown(x, -1)

\* Variant whose rounding branch can return 3.
niceNum_Three(range, round) ==
  LET exponent == Exponent(range)
      fraction == FracDiv(range, FracPow10(exponent))
      niceFraction ==
        IF round
        THEN IF FracLess(fraction, [num |-> 3, den |-> 2]) THEN 1
             ELSE IF FracLess(fraction, Whole(3)) THEN 2
             ELSE IF FracLess(fraction, Whole(7)) THEN 3
             ELSE 10
        ELSE IF FracLeq(fraction, Whole(1)) THEN 1
             ELSE IF FracLeq(fraction, Whole(2)) THEN 2
             ELSE IF FracLeq(fraction, Whole(5)) THEN 5
             ELSE 10
  IN FracMul(Whole(niceFraction), FracPow10(exponent))

niceNum(range, round) ==
  LET exponent == Exponent(range)
      fraction == FracDiv(range, FracPow10(exponent))
      niceFraction ==
        IF round
        THEN IF FracLess(fraction, [num |-> 3, den |-> 2]) THEN 1
             ELSE IF FracLess(fraction, Whole(3)) THEN 2
             ELSE IF FracLess(fraction, Whole(7)) THEN 5
             ELSE 10
        ELSE IF FracLeq(fraction, Whole(1)) THEN 1
             ELSE IF FracLeq(fraction, Whole(2)) THEN 2
             ELSE IF FracLeq(fraction, Whole(5)) THEN 5
             ELSE 10
  IN FracMul(Whole(niceFraction), FracPow10(exponent))

\* Variant that takes the tick at or below max as the upper end.
getAxisScaling_FloorMax(min, max, ticks) ==
  LET range == niceNum(FracSub(max, min), FALSE)
      tickSpacing == niceNum(FracDiv(range, Whole(ticks - 1)), TRUE)
      niceMin == FracMul(Whole(FracFloor(FracDiv(min, tickSpacing))), tickSpacing)
      niceMax == FracMul(Whole(FracFloor(FracDiv(max, tickSpacing))), tickSpacing)
  IN [min |-> niceMin, max |-> niceMax, spacing |-> tickSpacing]

getAxisScaling(min, max, ticks) ==
  LET range == niceNum(FracSub(max, min), FALSE)
      tickSpacing == niceNum(FracDiv(range, Whole(ticks - 1)), TRUE)
      niceMin == FracMul(Whole(FracFloor(FracDiv(min, tickSpacing))), tickSpacing)
      niceMax == FracMul(Whole(FracFloor(FracDiv(max, tickSpacing)) + 1), tickSpacing)
  IN [min |-> niceMin, max |-> niceMax, spacing |-> tickSpacing]

MaxAxis == 50        \* largest magnitude of the values given to getAxisScaling

\* The values explored: the whole numbers and the halves up to MaxAxis.
AxisValues == {[num |-> n, den |-> 2] : n \in (-2 * MaxAxis)..(2 * MaxAxis)}

\* One call of getAxisScaling, on any min < max.
ScaleAxis ==
  \E min \in AxisValues, max \in AxisValues :
    LET axis == getAxisScaling(min, max, maxTicks)
    IN /\ ~scaling.called
       /\ FracLess(min, max)
       /\ scaling' = [called |-> TRUE, min |-> min, max |-> max,
                      niceMin |-> axis.min, niceMax |-> axis.max,
                      spacing |-> axis.spacing]
       /\ lastOp' = "getAxisScaling"
       /\ UNCHANGED <<data, beginGraphNowMs, beginRenderTimeMs, now, adds, addCalls,
                      lastRender, layoutVars>>

NextAxis == ScaleAxis

SpecAxis == InitGraphSpec /\ [][NextAxis]_vars

(***************************************************************************)
(* Properties of the reducer                                               *)
(***************************************************************************)
Logged(log, cmd) == \E i \in 1..Len(log) : log[i] = cmd

\* C1: once at least one APPEND has been processed, the cursor is a valid
\* index of the history: 0 <= currentHistoryPosition < length(gridStateHistory).
C1_CursorInBounds ==
  Logged(actionHistory, "APPEND") =>
    /\ 0 <= currentHistoryPosition
    /\ currentHistoryPosition < Len(gridStateHistory)

C1_Witness ==
  /\ lastAction.type = "UNDO"
  /\ Len(gridStateHistory) >= 3
  /\ currentHistoryPosition = 1

\* C3: an APPEND whose payload is deep-equal to the snapshot at the cursor
\* leaves gridStateHistory, currentHistoryPosition and currentHead unchanged.
C3_NoOpSuppression ==
  ( /\ lastAction.type = "APPEND"
    /\ HasIndex(pre.gridStateHistory, pre.currentHistoryPosition)
    /\ IsEqual(pre.gridStateHistory[pre.currentHistoryPosition + 1],
               lastAction.payload, heap) )
  => /\ gridStateHistory = pre.gridStateHistory
     /\ currentHistoryPosition = pre.currentHistoryPosition
     /\ currentHead = pre.currentHead

C3_Witness ==
  /\ lastAction.type = "APPEND"
  /\ HasIndex(pre.gridStateHistory, pre.currentHistoryPosition)
  /\ IsEqual(pre.gridStateHistory[pre.currentHistoryPosition + 1],
             lastAction.payload, heap)
  /\ lastAction.payload # pre.gridStateHistory[pre.currentHistoryPosition + 1]
  /\ Len(lastAction.payload) = 2

\* C4: after an effective UNDO, an APPEND whose payload differs from the
\* current head discards every snapshot after the old cursor, pushes the
\* payload and leaves the cursor on the last index (length = old cursor + 2),
\* so that a REDO right after it changes nothing.
C4_RedoTruncation ==
  ( /\ lastAction.type = "APPEND"
    /\ Logged(pre.actionHistory, "UNDO")
    /\ HasIndex(pre.gridStateHistory, pre.currentHistoryPosition)
    /\ ~IsEqual(pre.gridStateHistory[pre.currentHistoryPosition + 1],
                lastAction.payload, heap) )
  => /\ gridStateHistory =
          Append(SubSeq(pre.gridStateHistory, 1, pre.currentHistoryPosition + 1),
                 lastAction.payload)
     /\ Len(gridStateHistory) = pre.currentHistoryPosition + 2
     /\ currentHistoryPosition = Len(gridStateHistory) - 1
     /\ currentHead = lastAction.payload
     /\ stateHistoryReducer(CurState, RedoAction, heap) = CurState

C4_Witness ==
  /\ lastAction.type = "APPEND"
  /\ LastLogged(pre) = "UNDO"
  /\ pre.currentHistoryPosition + 1 < Len(pre.gridStateHistory)
  /\ pre.currentHistoryPosition > 0
  /\ ~IsEqual(pre.gridStateHistory[pre.currentHistoryPosition + 1],
              lastAction.payload, heap)
  /\ Len(gridStateHistory) = pre.currentHistoryPosition + 2

\* C5: APPENDs followed by N UNDOs and then N REDOs end with the head and
\* the cursor that were current before the first UNDO, for every N >= 0.
C5_RoundTrip ==
  rt.phase = "done" =>
    /\ currentHead = rt.head
    /\ currentHistoryPosition = rt.pos

C5_Witness ==
  /\ rt.phase = "done"
  /\ Len(gridStateHistory) >= 2
  /\ rt.n > Len(gridStateHistory)
  /\ Logged(actionHistory, "REDO")

\* C6: UNDO at cursor 0 (or on the empty history) and REDO at the last index
\* change nothing, the action log included; otherwise UNDO moves the cursor
\* down by exactly one and REDO up by exactly one.
C6_BoundsAreNoOps ==
  /\ lastAction.type = "UNDO" =>
       IF pre.currentHistoryPosition <= 0
       THEN CurState = pre
       ELSE /\ currentHistoryPosition = pre.currentHistoryPosition - 1
            /\ gridStateHistory = pre.gridStateHistory
  /\ lastAction.type = "REDO" =>
       IF pre.currentHistoryPosition >= Len(pre.gridStateHistory) - 1
       THEN CurState = pre
       ELSE /\ currentHistoryPosition = pre.currentHistoryPosition + 1
            /\ gridStateHistory = pre.gridStateHistory

C6_Witness ==
  /\ lastAction.type = "UNDO"
  /\ pre.currentHistoryPosition = 0
  /\ Len(gridStateHistory) >= 2
  /\ CurState = pre

\* The last dispatch was an APPEND, made while the log ended in UNDO or REDO,
\* of a payload deep-equal to the snapshot that action had made current.
AppendedAfterMove ==
  /\ lastAction.type = "APPEND"
  /\ LastLogged(pre) \in {"UNDO", "REDO"}
  /\ IsEqual(lastAction.payload, pre.currentHead, heap)

\* C24: an APPEND that follows an effective UNDO or REDO with a payload
\* deep-equal to the snapshot that action made current leaves the reducer
\* state as it was; from every reachable state, UNDO, such an APPEND, REDO
\* leads back to the snapshot, cursor and history the UNDO left, and REDO
\* followed by such an APPEND keeps every snapshot after the cursor.
C24_SuppressedAppendKeepsRedo ==
  /\ AppendedAfterMove => CurState = pre
  /\ \A p \in Payloads :
       LET u == stateHistoryReducer(CurState, UndoAction, heap)
           a == stateHistoryReducer(u, AppendAction(p), heap)
           r == stateHistoryReducer(a, RedoAction, heap)
       IN (u.actionHistory # actionHistory /\ IsEqual(p, u.currentHead, heap)) =>
            /\ a = u
            /\ r.gridStateHistory = gridStateHistory
            /\ r.currentHistoryPosition = currentHistoryPosition
            /\ r.currentHead = currentHead
  /\ \A p \in Payloads :
       LET v == stateHistoryReducer(CurState, RedoAction, heap)
           a == stateHistoryReducer(v, AppendAction(p), heap)
       IN (v.actionHistory # actionHistory /\ IsEqual(p, v.currentHead, heap)) =>
            /\ a = v
            /\ a.gridStateHistory = gridStateHistory

\* After an UNDO, an APPEND of another array with the content of the current
\* snapshot was dispatched while a snapshot to redo to exists.
C24_Witness ==
  /\ AppendedAfterMove
  /\ LastLogged(pre) = "UNDO"
  /\ lastAction.payload # pre.currentHead
  /\ currentHistoryPosition < Len(gridStateHistory) - 1

\* C29: once an APPEND has been processed, currentHead is the snapshot
\* gridStateHistory[currentHistoryPosition]; right after an APPEND that was
\* not suppressed it is the appended payload.
C29_HeadIsSnapshotAtCursor ==
  /\ Logged(actionHistory, "APPEND") =>
       /\ HasIndex(gridStateHistory, currentHistoryPosition)
       /\ currentHead = gridStateHistory[currentHistoryPosition + 1]
  /\ (lastAction.type = "APPEND" /\ actionHistory # pre.actionHistory) =>
       currentHead = lastAction.payload

\* An effective UNDO or REDO has put another snapshot under the cursor.
C29_Witness ==
  /\ lastAction.type \in {"UNDO", "REDO"}
  /\ actionHistory # pre.actionHistory
  /\ ~IsEqual(currentHead, pre.currentHead, heap)
  /\ Logged(actionHistory, "REDO")
  /\ Len(currentHead) >= 1

\* The payload is deep-equal to the snapshot at the cursor of state.
EqualsSnapshotAtCursor(state, payload) ==
  /\ HasIndex(state.gridStateHistory, state.currentHistoryPosition)
  /\ IsEqual(state.gridStateHistory[state.currentHistoryPosition + 1], payload, heap)

\* APPEND as a reducer without the test of the last logged action does it.
AppendWithoutLogCheck(state, payload) ==
  IF EqualsSnapshotAtCursor(state, payload) THEN state ELSE PushPayload(state, payload)

\* C30: in every reachable reducer state an APPEND is suppressed exactly
\* when its payload is deep-equal to gridStateHistory[currentHistoryPosition],
\* whatever the action log ends in, so the reducer without the test of the
\* last logged action takes the same step from every reachable state (UNDO
\* and REDO do not read the log) and reaches the same snapshots, cursor and
\* head on every sequence of actions.
C30_LogNeverChangesAppend ==
  /\ \A p \in Payloads :
       /\ ShouldAppend(CurState, p, heap) = ~EqualsSnapshotAtCursor(CurState, p)
       /\ stateHistoryReducer(CurState, AppendAction(p), heap)
            = AppendWithoutLogCheck(CurState, p)
  /\ lastAction.type = "APPEND" =>
       ((CurState = pre) = EqualsSnapshotAtCursor(pre, lastAction.payload))

\* An APPEND dispatched while the log ended in REDO was suppressed, its
\* payload being another array with the content of the head.
C30_Witness ==
  /\ lastAction.type = "APPEND"
  /\ LastLogged(pre) = "REDO"
  /\ CurState = pre
  /\ lastAction.payload # pre.currentHead
  /\ Len(lastAction.payload) >= 1

(***************************************************************************)
(* Properties of the component                                             *)
(***************************************************************************)
\* C2: a snapshot that stays in the history keeps its content (every panel's
\* id, view, x, y, w, h, isDraggable, isResizable) across every operation.
C2_SnapshotsImmutable ==
  [][\A i \in 1..Len(gridStateHistory) :
       (i <= Len(gridStateHistory') /\ gridStateHistory'[i] = gridStateHistory[i])
       => Deref(gridStateHistory'[i], heap') = Deref(gridStateHistory[i], heap)]_vars

\* C7: a lock toggle on a grid with at least one panel appends exactly one
\* snapshot (the history grows by one and the cursor moves to it) whose
\* panels all carry isDraggable = isResizable = the new unlocked state.
C7_LockToggleAppends ==
  ( /\ lastOp = "clickFAB"
    /\ Len(pre.currentHead) >= 1
    /\ pre.currentHistoryPosition = Len(pre.gridStateHistory) - 1 )
  => /\ Len(gridStateHistory) = Len(pre.gridStateHistory) + 1
     /\ currentHistoryPosition = Len(gridStateHistory) - 1
     /\ \A a \in Range(currentHead) :
          /\ heap[a].layout.isDraggable = ~isLayoutLocked
          /\ heap[a].layout.isResizable = ~isLayoutLocked

\* C8: once an operation has been processed, the stored blob is the
\* serialization of the current head's panel list, flags included.
C8_PersistenceFollowsHead ==
  mounted => storage = Serialize(currentHead, heap)

\* C9: while Locked every panel of the current head has isDraggable and
\* isResizable false, while Unlocked every panel has both true.
C9_LockMatchesFlags ==
  mounted =>
    \A a \in Range(currentHead) :
      /\ heap[a].layout.isDraggable = ~isLayoutLocked
      /\ heap[a].layout.isResizable = ~isLayoutLocked

\* C10: right after a toggle to Locked the view picker and delete mode are
\* both closed, so no Locked state has either of them open.
C10_LockClosesPickerAndDeleteMode ==
  (mounted /\ isLayoutLocked) => (~isShowingViewPicker /\ ~isInDeleteMode)

(***************************************************************************)
(* Properties of the placement of a new panel                              *)
(***************************************************************************)
\* Two panel rectangles overlap when their horizontal spans intersect and
\* their vertical spans intersect.
Overlaps(l1, l2) ==
  /\ l1.x < l2.x + l2.w /\ l2.x < l1.x + l1.w
  /\ l1.y < l2.y + l2.h /\ l2.y < l1.y + l1.h

\* C11: addItem places the new 2x4 panel so that its rectangle overlaps no
\* existing panel's rectangle: for every existing panel the horizontal spans
\* are disjoint or the vertical spans are disjoint.
C11_PlacementNonOverlap ==
  lastOp = "addItem" =>
    LET items == Deref(lastAction.payload, heap)
        new == items[Len(items)].layout
    IN \A i \in 1..(Len(items) - 1) : ~Overlaps(new, items[i].layout)

(***************************************************************************)
(* Properties of the graph                                                 *)
(***************************************************************************)
\* The samples a series holds, as <<name, time, value>>, oldest first.
Held(series) ==
  [j \in 1..Min(Len(series.ts), Len(series.vs)) |->
     <<series.name, series.ts[j], series.vs[j]>>]

\* What the add calls since reset pushed for the series called name.
LogOf(name) == SelectSeq(addedLog, LAMBDA e : e[1] = name)

IsSuffix(a, b) ==
  /\ Len(a) <= Len(b)
  /\ \A j \in 1..Len(a) : a[j] = b[Len(b) - Len(a) + j]

\* C12: after any interleaving of add and render calls, every series has
\* length(ts) = length(vs) and the value at index i is the value that was
\* added with the timestamp at index i.
C12_BuffersAligned ==
  \A i \in 1..Len(data) :
    /\ Len(data[i].ts) = Len(data[i].vs)
    /\ IsSuffix(Held(data[i]), LogOf(data[i].name))

C12_Witness ==
  /\ lastOp = "add"
  /\ lastRender.called
  /\ \E i \in 1..Len(data) :
       /\ Len(data[i].ts) >= 1
       /\ Len(data[i].ts) < Len(LogOf(data[i].name))

\* C13: after any sequence of add and render calls, the timestamps of every
\* series are in non-decreasing order.
C13_TimestampsAscending ==
  \A i \in 1..Len(data) :
    \A j, k \in 1..Len(data[i].ts) :
      j < k => /\ data[i].ts[j].kind = "number"
               /\ data[i].ts[k].kind = "number"
               /\ data[i].ts[j].v <= data[i].ts[k].v

\* The add calls since reset that were given a non-empty batch.
NonEmptyAdds == {k \in 1..Len(addCalls) : Len(addCalls[k].samples) > 0}

SetMin(S) == CHOOSE m \in S : \A n \in S : m <= n

\* C14: the anchor (beginGraphNowMs, beginRenderTimeMs) is established by
\* the first non-empty batch passed to add, as (time of the batch's last
\* sample - 250, wall-clock time of that add), and no later add or render
\* call changes either component.
C14_AnchorSetOnce ==
  IF NonEmptyAdds = {}
  THEN beginGraphNowMs = NaN /\ beginRenderTimeMs = NaN
  ELSE LET first == addCalls[SetMin(NonEmptyAdds)]
           last == first.samples[Len(first.samples)]
       IN /\ beginGraphNowMs = Num(SampleTime(last).v - 250)
          /\ beginRenderTimeMs = Num(first.at)

C14_Witness ==
  /\ lastOp = "render"
  /\ Cardinality(NonEmptyAdds) = 2
  /\ addCalls[1].at < addCalls[2].at
  /\ addCalls[2].at < now
  /\ SampleTime(addCalls[1].samples[Len(addCalls[1].samples)])
       # SampleTime(addCalls[2].samples[Len(addCalls[2].samples)])

\* C15: after a render call that computes graphNowMs, no series buffer
\* contains a sample with ts + windowMs + 250 < graphNowMs.
C15_WindowPruning ==
  (lastOp = "render" /\ lastRender.graphNowMs.kind = "number") =>
    \A i \in 1..Len(data) :
      \A j \in 1..Len(data[i].ts) :
        ~(data[i].ts[j].v + windowMs + 250 < lastRender.graphNowMs.v)

\* C16: render returns false when no anchor has been established or when
\* every series is empty after that call's pruning, and returns true exactly
\* when an anchor exists and some series still holds a sample after pruning.
C16_RenderResult ==
  lastOp = "render" =>
    (lastRender.result <=>
       /\ NonEmptyAdds # {}
       /\ \E i \in 1..Len(data) : Len(data[i].ts) > 0)

C16_Witness ==
  /\ lastOp = "render"
  /\ ~lastRender.result
  /\ NonEmptyAdds # {}
  /\ Len(addedLog) >= 2
  /\ Len(data) >= 1

\* The entries of the last batch, as <<name, time, value>>.
LastBatchEntries ==
  LET samples == addCalls[Len(addCalls)].samples
  IN UNION {{<<samples[k][i].name, SampleTime(samples[k]), samples[k][i].value>> :
               i \in 1..Len(samples[k])} : k \in 1..Len(samples)}

\* C17: an entry whose value is NaN, missing or non-numeric is never
\* appended to a buffer and never creates a series, an entry named "time"
\* is never stored as a series, and every other entry of the sample is
\* appended with the sample's time.
C17_SampleFiltering ==
  /\ \A i \in 1..Len(data) :
       /\ data[i].name # "time"
       /\ \A j \in 1..Len(data[i].vs) : data[i].vs[j].kind = "number"
  /\ lastOp = "add" =>
       \A e \in LastBatchEntries :
         (e[1] # "time" /\ e[3].kind = "number") =>
           \E i \in 1..Len(data) : \E j \in 1..Len(data[i].ts) :
             Held(data[i])[j] = e

\* The end-to-end scenario: a batch holding the sample (time = 0, a = 1),
\* then a batch holding (time = 300, a = 2), and a render call e ms of
\* wall-clock time after the first add.
ScenarioRenderedAfter(e) ==
  /\ Len(addCalls) = 2
  /\ addCalls[1].samples = << <<TimeEntry(0), Entry("a", Num(1))>> >>
  /\ addCalls[2].samples = << <<TimeEntry(300), Entry("a", Num(2))>> >>
  /\ lastOp = "render"
  /\ lastRender.at = addCalls[1].at + e

InsidePlot(x, width) == FracLeq(Whole(0), x) /\ FracLeq(x, Whole(width))

\* C18 as stated: in the scenario a render called immediately returns true,
\* both points of series a have X coordinates inside the plot rectangle
\* [0, width], and the t = 300 point is to the right of the t = 0 point.
C18_EndToEndInsidePlot ==
  ScenarioRenderedAfter(0) =>
    /\ lastRender.result
    /\ Len(lastRender.points) = 1
    /\ Len(lastRender.points[1].xs) = 2
    /\ InsidePlot(lastRender.points[1].xs[1], lastRender.width)
    /\ InsidePlot(lastRender.points[1].xs[2], lastRender.width)
    /\ FracLess(lastRender.points[1].xs[1], lastRender.points[1].xs[2])

\* C18 amended: in the scenario a render called e ms after the first add
\* (e = 0, 250, 550) returns true, the t = 300 point is to the right of the
\* t = 0 point, and a point of time t is at X = width * (t + 5250 - e) / 5000:
\* at e = 0 both points are to the right of the plot rectangle, and both are
\* inside [0, width] once e >= 550.
C18_EndToEndLagged ==
  \A e \in {0, 250, 550} :
    ScenarioRenderedAfter(e) =>
      /\ lastRender.result
      /\ Len(lastRender.points) = 1
      /\ Len(lastRender.points[1].xs) = 2
      /\ LET x1 == lastRender.points[1].xs[1]
             x2 == lastRender.points[1].xs[2]
             w == lastRender.width
         IN /\ x1 = [num |-> w * (0 + 5250 - e), den |-> 5000]
            /\ x2 = [num |-> w * (300 + 5250 - e), den |-> 5000]
            /\ FracLess(x1, x2)
            /\ e = 0 => (FracLess(Whole(w), x1) /\ FracLess(Whole(w), x2))
            /\ (InsidePlot(x1, w) /\ InsidePlot(x2, w)) <=> e >= 550

C18_Witness ==
  /\ ScenarioRenderedAfter(0)
  /\ lastRender.result
  /\ addCalls[2].at = addCalls[1].at

\* C20: a render call that follows a render call with no add in between
\* and the same clock reading returns the same boolean and leaves every
\* series buffer and the anchor as the first call left them.
C20_RenderIdempotent ==
  [][(lastOp = "render" /\ lastOp' = "render" /\ now' = lastRender.at) =>
       /\ lastRender'.result = lastRender.result
       /\ data' = data
       /\ beginGraphNowMs' = beginGraphNowMs
       /\ beginRenderTimeMs' = beginRenderTimeMs]_vars

C20_Witness ==
  /\ lastOp = "render"
  /\ now = lastRender.at
  /\ \E i \in 1..Len(data) :
       /\ Len(LogOf(data[i].name)) >= Len(data[i].ts) + 2
       /\ TooOld(LogOf(data[i].name)[2][2], lastRender.graphNowMs)

(***************************************************************************)
(* Properties of the axis scaling                                          *)
(***************************************************************************)
\* x is a whole multiple of the positive fraction s.
IsMultiple(x, s) == (x.num * s.den) % (x.den * s.num) = 0

\* s = m * 10^k with m in {1, 2, 5, 10}.
IsNiceStep(s) ==
  \E m \in {1, 2, 5, 10}, k \in -4..4 : FracEq(s, FracMul(Whole(m), FracPow10(k)))

\* C19: for every min < max and maxTicks = 7, getAxisScaling returns
\* niceMin <= min, niceMax >= max, a spacing m * 10^k with m in {1, 2, 5, 10},
\* and niceMin and niceMax that are whole multiples of the spacing; for
\* min = 10 and max = 47 it returns min <= 10 and max >= 47.
C19_AxisScalingCovers ==
  /\ scaling.called =>
       /\ FracLeq(scaling.niceMin, scaling.min)
       /\ FracLeq(scaling.max, scaling.niceMax)
       /\ IsNiceStep(scaling.spacing)
       /\ IsMultiple(scaling.niceMin, scaling.spacing)
       /\ IsMultiple(scaling.niceMax, scaling.spacing)
  /\ (scaling.called /\ scaling.min = [num |-> 20, den |-> 2]
                     /\ scaling.max = [num |-> 94, den |-> 2]) =>
       /\ FracLeq(scaling.niceMin, Whole(10))
       /\ FracLeq(Whole(47), scaling.niceMax)

C19_Witness ==
  /\ scaling.called
  /\ FracEq(scaling.min, Whole(10))
  /\ FracEq(scaling.max, Whole(47))
  /\ FracEq(scaling.niceMin, Whole(10))
  /\ FracEq(scaling.niceMax, Whole(50))
  /\ FracEq(scaling.spacing, Whole(10))

\* The panel addItem appended: the last element of the payload it dispatched.
AddedPanel == heap[lastAction.payload[Len(lastAction.payload)]]

\* C22: on a head without panels addItem dispatches a one-panel list whose
\* panel sits at the origin (x = 0, y = 0) with w = 2 and h = 4; the other
\* copy of addItem computes the same layout for an empty list.
C22_EmptyGridPlacement ==
  /\ (lastOp = "addItem" /\ Len(pre.currentHead) = 0) =>
       /\ Len(lastAction.payload) = 1
       /\ AddedPanel.layout = MkLayout(0, 0, 2, 4, ~isLayoutLocked, ~isLayoutLocked)
  /\ \A locked \in BOOLEAN :
       NewItemLayoutHook(<<>>, locked) = MkLayout(0, 0, 2, 4, ~locked, ~locked)

\* addItem has run on an empty head and its panel is the head now.
C22_Witness ==
  /\ lastOp = "addItem"
  /\ Len(pre.currentHead) = 0
  /\ Len(currentHead) = 1
  /\ pre.currentHistoryPosition >= 0

\* The panels of the head addItem was called on.
PanelsBefore == Deref(pre.currentHead, heap)

\* bottomMost: the largest y + h over the panels, 0 without panels.
BottomMost(items) ==
  SetMax({0} \cup {items[i].layout.y + items[i].layout.h : i \in 1..Len(items)})

\* rightEdgeAtBottom: the largest x + w among the panels whose bottom is
\* bottomMost, 0 without panels.
RightEdgeAtBottom(items) ==
  SetMax({0} \cup {items[i].layout.x + items[i].layout.w :
                     i \in {j \in 1..Len(items) :
                              items[j].layout.y + items[j].layout.h = BottomMost(items)}})

\* addItem ran on a head whose bottom row leaves no room for two more columns.
Wrapped == lastOp = "addItem" /\ RightEdgeAtBottom(PanelsBefore) + 2 > 6

\* C23 as stated: when rightEdgeAtBottom + 2 > 6 the new panel is placed at
\* column 0 with top y = bottomMost + 4.
C23_WrapTopBelowByHeight ==
  Wrapped =>
    /\ AddedPanel.layout.x = 0
    /\ AddedPanel.layout.y = BottomMost(PanelsBefore) + 4

\* C23 amended: when rightEdgeAtBottom + 2 > 6 the new panel is placed at
\* column 0 with top y = bottomMost, directly under the previous bottom, so
\* that its bottom y + h is bottomMost + 4.
C23_WrapTopAtBottom ==
  Wrapped =>
    /\ AddedPanel.layout.x = 0
    /\ AddedPanel.layout.y = BottomMost(PanelsBefore)
    /\ AddedPanel.layout.y + AddedPanel.layout.h = BottomMost(PanelsBefore) + 4

\* addItem has wrapped under a bottom row that ends at the right border while
\* column 0 is free above the previous bottom.
C23_Witness ==
  /\ Wrapped
  /\ Len(PanelsBefore) >= 1
  /\ currentHead = lastAction.payload
  /\ \E i \in 1..Len(PanelsBefore) :
       /\ PanelsBefore[i].layout.x < 2
       /\ PanelsBefore[i].layout.y + PanelsBefore[i].layout.h < BottomMost(PanelsBefore)

(***************************************************************************)
(* Properties of the keyboard shortcuts                                    *)
(***************************************************************************)
\* C21: while the layout is Locked, a keydown event dispatches neither UNDO
\* nor REDO: the handler dispatches nothing and the history, its cursor and
\* the head stay as they are.
C21_KeyboardGatedByLock ==
  [][(isLayoutLocked /\ lastOp' \in {"undo", "redo", "keydown"}) =>
       /\ lastAction' = NoAction
       /\ UNCHANGED histVars]_vars

\* A keydown handled in Locked mode with a snapshot to go back to.
C21_Witness ==
  /\ mounted
  /\ isLayoutLocked
  /\ lastOp = "keydown"
  /\ currentHistoryPosition > 0

\* The keydown events of the shortcuts.
KeyChord(meta, ctrl, shift, key) ==
  [metaKey |-> meta, ctrlKey |-> ctrl, shiftKey |-> shift, key |-> key]

CtrlZ == KeyChord(FALSE, TRUE, FALSE, "z")
CtrlY == KeyChord(FALSE, TRUE, FALSE, "y")
CmdZ == KeyChord(TRUE, FALSE, FALSE, "z")
CmdShiftZ == KeyChord(TRUE, FALSE, TRUE, "z")

\* C28: while the layout is Unlocked, on a Mac and on any other platform,
\* the listener answers Ctrl+Z with UNDO and Ctrl+Y with REDO, and on a Mac
\* it answers Cmd+Z with UNDO and Cmd+Shift+Z with REDO.
C28_ShortcutsOnEveryPlatform ==
  (mounted /\ ~isLayoutLocked) =>
    \A idx \in PlatformMacIndexes :
      /\ KeyCommandHook(CtrlZ, isLayoutLocked, idx) = "UNDO"
      /\ KeyCommandHook(CtrlY, isLayoutLocked, idx) = "REDO"
      /\ idx > -1 => /\ KeyCommandHook(CmdZ, isLayoutLocked, idx) = "UNDO"
                     /\ KeyCommandHook(CmdShiftZ, isLayoutLocked, idx) = "REDO"

(***************************************************************************)
(* Properties of the Y axis                                                *)
(***************************************************************************)
\* The numbers held across all series buffers.
HeldNumbers ==
  UNION {{ToNumber(data[i].vs[j]).v : j \in 1..Len(data[i].vs)} : i \in 1..Len(data)}

\* A frame was drawn: render pruned, found a non-empty series and called
\* renderGraph, which scaled the Y axis.
FrameDrawn == lastOp = "render" /\ lastRender.result

\* C25: the min and max getYAxisScaling finds are the smallest and the
\* largest value held across all series buffers, and they are the range it
\* hands to getAxisScaling unless it pads a degenerate range.
C25_YExtremaAreTrue ==
  FrameDrawn =>
    /\ lastRender.yAxis.min = Num(SetMin(HeldNumbers))
    /\ lastRender.yAxis.max = Num(SetMax(HeldNumbers))
    /\ ~lastRender.yAxis.padded =>
         /\ lastRender.yAxis.low = Num(SetMin(HeldNumbers))
         /\ lastRender.yAxis.high = Num(SetMax(HeldNumbers))

\* C26: when all values held across all series equal one value v, negative,
\* zero or positive, getYAxisScaling hands the padded range [v - 1, v + 1]
\* to getAxisScaling.
C26_DegeneratePad ==
  (FrameDrawn /\ Cardinality(HeldNumbers) = 1) =>
    LET v == SetMin(HeldNumbers)
    IN /\ lastRender.yAxis.padded
       /\ lastRender.yAxis.low = Num(v - 1)
       /\ lastRender.yAxis.high = Num(v + 1)

(***************************************************************************)
(* Properties of the series colours                                        *)
(***************************************************************************)
\* The number of distinct names pushed before name was first pushed, over
\* the add calls made since the graph was constructed or reset: k for the
\* k-th series name seen.
FirstSeenRank(name) ==
  LET first == SetMin({i \in 1..Len(addedLog) : addedLog[i][1] = name})
  IN Cardinality({addedLog[i][1] : i \in 1..(first - 1)})

Palette(k) == colors[(k % Len(colors)) + 1]

\* C27: the k-th distinct series name, in order of first appearance, has
\* the colour palette[k mod length(palette)] from its creation on: it is the
\* colour stored with the series, and the colour the series' line is drawn
\* in by every frame.
C27_ColourByFirstSeen ==
  /\ \A i \in 1..Len(data) : data[i].color = Palette(FirstSeenRank(data[i].name))
  /\ FrameDrawn =>
       \A i \in 1..Len(lastRender.points) :
         lastRender.points[i].drawn =>
           lastRender.points[i].color = Palette(FirstSeenRank(lastRender.points[i].name))

(***************************************************************************)
(* Properties of the placement inside the grid                             *)
(***************************************************************************)
\* Every panel has a non-negative origin and a positive extent.
WellPlaced(items) ==
  \A i \in 1..Len(items) :
    /\ items[i].layout.x >= 0
    /\ items[i].layout.y >= 0
    /\ items[i].layout.w >= 1
    /\ items[i].layout.h >= 1

InsideGrid(layout) ==
  /\ layout.x >= 0
  /\ layout.x + ITEM_WIDTH <= COLS
  /\ layout.y >= 0

\* C31: for a head whose panels satisfy x >= 0, y >= 0, w >= 1, h >= 1 the
\* panel placed by addItem satisfies x >= 0, x + 2 <= 6 and y >= 0.
C31_NewPanelInsideGrid ==
  (lastOp = "addItem" /\ WellPlaced(PanelsBefore)) => InsideGrid(AddedPanel.layout)

\* The same statement for the other copy of addItem, over the heads reached.
C31_NewPanelInsideGridHook ==
  (lastOp = "addItem" /\ WellPlaced(PanelsBefore)) =>
    InsideGrid(NewItemLayoutHook(PanelsBefore, isLayoutLocked))

(***************************************************************************)
(* Properties of what render leaves alone                                  *)
(***************************************************************************)
\* Buffer `after` is buffer `before` without its first samples, each of
\* which was too old for graph time g when it was at the front.
EvictedFromFront(before, after, g) ==
  LET k == Len(before.ts) - Len(after.ts)
  IN /\ k >= 0
     /\ Len(before.vs) - Len(after.vs) = k
     /\ after.ts = SubSeq(before.ts, k + 1, Len(before.ts))
     /\ after.vs = SubSeq(before.vs, k + 1, Len(before.vs))
     /\ \A j \in 1..k : TooOld(before.ts[j], g)

\* C32: for every series the buffer after a render call is a suffix of the
\* buffer before it (no sample is added, reordered or changed, and no sample
\* with ts + windowMs + 250 >= graphNowMs at the front is removed); render
\* deletes no series, so a series that has become empty stays in the series
\* set with its legend colour, and render does not change the anchor.
C32_RenderEvictsFromFrontOnly ==
  [][lastOp' = "render" =>
       /\ Len(data') = Len(data)
       /\ \A i \in 1..Len(data) :
            /\ data'[i].name = data[i].name
            /\ data'[i].color = data[i].color
            /\ EvictedFromFront(data[i], data'[i], lastRender'.graphNowMs)
       /\ beginGraphNowMs' = beginGraphNowMs
       /\ beginRenderTimeMs' = beginRenderTimeMs]_vars

\* render has drawn a frame while one series, emptied by eviction, is still
\* in the series set next to a series that holds samples.
C32_Witness ==
  /\ lastOp = "render"
  /\ lastRender.result
  /\ \E i, k \in 1..Len(data) :
       /\ Len(data[i].ts) = 0
       /\ Len(LogOf(data[i].name)) >= 1
       /\ Len(data[k].ts) >= 1

====
